---- MODULE Spec2Model ----
(***************************************************************************)
(* A model of the binary mzML container decoder of josoriom/b              *)
(* (crates/parser/src/utilities/decode.rs).                                *)
(*                                                                         *)
(* A file is a header record plus the contents of its regions.  Numbers    *)
(* keep the sizes the decoder computes with (32-byte index and directory   *)
(* entries, the 192-byte header, 4- and 8-byte floats).  A float is the    *)
(* tuple of its little-endian bytes.  The codec libraries (zlib, zstd) are *)
(* external: a compressed payload is a record naming the codec that wrote  *)
(* it and the bytes it inflates to.                                        *)
(***************************************************************************)
EXTENDS Integers, Sequences, FiniteSets, TLC

VARIABLES
    doc,        \* the document the input file was encoded from
    mutation,   \* how the encoded file was damaged before decoding ("none": not)
    file,       \* the byte string given to decode, as header fields and regions
    pc,         \* position inside decode
    outcome,    \* decode's result: [kind |-> "none" | "ok" | "err" | "panic", ...]
    reads,      \* the regions of the input decode has read so far
    slices,     \* the byte lengths of the slices cut from the file
    meta,       \* decoded metadata blocks (spec, chrom, global)
    cont,       \* the four Container values (directory, block starts, cache)
    item,       \* loop counter of the spectrum / chromatogram loop
    spectra,    \* spectra built so far
    chromatograms,  \* chromatograms built so far
    materialized,   \* log of the blocks block_bytes handed out: container, id, length
    block_log,      \* the block_bytes calls in order: container, id, how it was served
    table_ready,    \* whether the process has built the CV table (cv_table::TABLE)
    calls,          \* how many decode calls the process has started on the file
    first_outcome,  \* the result of the first call, once a second one has started
    \* the byte-shuffle filter on its own
    fbuf,       \* a buffer of N * felem bytes
    felem,      \* the element size
    fshuf,      \* shuffle(fbuf), None before it is computed
    fout,       \* the result of decode.rs unshuffle_into on fshuf, None before
    fout2,      \* the output of decode2.rs byte_unshuffle_into on fshuf, None before
    \* octo convert (crates/cli/src/main.rs)
    cli_args,   \* [mode, overwrite]: the conversion flag and --overwrite
    cli_env,    \* whether the set-up calls of convert succeed
    cli_fs,     \* the regular files under the input root
    cli_files,  \* the files collected for conversion, as positions in cli_fs
    cli_pc,     \* position inside convert
    cli_i,      \* loop counter (1-based position in cli_files)
    cli_counts, \* [ok, failed, skipped]
    cli_attempts,   \* per file of cli_fs, how many loop turns it was given
    cli_out,    \* per file of cli_fs, its output path: [state, content]
    cli_result, \* what convert returned: "none" (not yet), "ok", "err"
    \* decompression of a stream that may carry zero padding
    pad_call,   \* [mode, input, valid]: who decompresses, the bytes, the prefixes the codec accepts
    pad_end,    \* the length of the prefix tried last
    pad_round,  \* turns of the retry loop taken
    pad_pc,     \* position inside the decompression
    pad_res,    \* None, or the result: Ok(prefix length that inflated) or Err
    \* print_json (crates/cli/src/main.rs)
    json_in,    \* the value serde_json::to_value returned
    json_val,   \* the value prune_json works on in place; printed at the end
    json_pc,    \* position inside print_json
    \* the blocks of one container read in any order
    ord_c,      \* the Container of decode.rs (directory, cache, scratch)
    ord_r,      \* the ContainerReader of decode2.rs over the same region
    \* infer_precursor_list_from_spectrum_cv on its own
    prec_in,    \* the spectrum's params before the call
    prec_out,   \* [rest, precursor_list] after the call
    prec_pc,    \* position of the call
    \* get_attr_text on its own
    attr_rows,  \* the rows given to get_attr_text
    attr_tail,  \* the attribute tail asked for
    attr_res,   \* None, or the Option the call returned, wrapped
    attr_pc,    \* position of the call
    \* parse_spectrum_list on its own
    slist_meta, \* the metadata rows of the spectra block
    slist_out,  \* None, or the Option<SpectrumList> the call returned, wrapped
    slist_pc,   \* position of the call
    \* collect_subtree_owner_ids, one turn of its loop at a time
    sub_children,\* children_by_parent, as ChildIndex::new built it
    sub_root,   \* root_id
    sub_out,    \* the set out
    sub_stack,  \* the stack, its top last
    sub_pc      \* position of the call

decodeVars == <<doc, mutation, file, pc, outcome, reads, slices, meta, cont, item,
                spectra, chromatograms, materialized, block_log, table_ready,
                calls, first_outcome>>
callVars == <<calls, first_outcome>>
filterVars == <<fbuf, felem, fshuf, fout, fout2>>
cliVars == <<cli_args, cli_env, cli_fs, cli_files, cli_pc, cli_i, cli_counts,
             cli_attempts, cli_out, cli_result>>
\* The variables of the later specifications.
padVars == <<pad_call, pad_end, pad_round, pad_pc, pad_res>>
jsonVars == <<json_in, json_val, json_pc>>
ordVars == <<ord_c, ord_r>>
precVars == <<prec_in, prec_out, prec_pc>>
attrVars == <<attr_rows, attr_tail, attr_res, attr_pc>>
slistVars == <<slist_meta, slist_out, slist_pc>>
subVars == <<sub_children, sub_root, sub_out, sub_stack, sub_pc>>
laterVars == <<padVars, jsonVars, ordVars, precVars, attrVars, slistVars, subVars>>
exceptPad == <<decodeVars, filterVars, cliVars, jsonVars, ordVars, precVars, attrVars, slistVars, subVars>>
exceptJson == <<decodeVars, filterVars, cliVars, padVars, ordVars, precVars, attrVars, slistVars, subVars>>
exceptOrd == <<decodeVars, filterVars, cliVars, padVars, jsonVars, precVars, attrVars, slistVars, subVars>>
exceptPrec == <<decodeVars, filterVars, cliVars, padVars, jsonVars, ordVars, attrVars, slistVars, subVars>>
exceptAttr == <<decodeVars, filterVars, cliVars, padVars, jsonVars, ordVars, precVars, slistVars, subVars>>
exceptSlist == <<decodeVars, filterVars, cliVars, padVars, jsonVars, ordVars, precVars, attrVars, subVars>>
exceptSub == <<decodeVars, filterVars, cliVars, padVars, jsonVars, ordVars, precVars, attrVars, slistVars>>
otherVars == <<filterVars, callVars, cliVars, laterVars>>  \* what no step of a decode call touches
vars == <<decodeVars, filterVars, cliVars, laterVars>>

----------------------------------------------------------------------------
(* Bounds of the model *)

MaxSpectra == 2
MaxChroms == 1
MaxLen == 2
MaxElems == 3       \* elements of a shuffled buffer
MaxByteStep == 3    \* byte i of a buffer is (base + step * i) % 256
MaxByteBase == 3
MaxFiles == 2       \* files under the input root of a conversion
MaxStream == 8      \* bytes of a compressed stream with its padding
MaxJsonNodes == 4   \* nodes (scalars and containers) of a JSON value
MaxOrdBlocks == 2   \* blocks of a container whose blocks are read in any order
MaxParams == 3      \* params of a spectrum given to the precursor inference

(* Program constants *)

HEADER_SIZE == 192
INDEX_ENTRY_SIZE == 32
BLOCK_DIR_ENTRY_SIZE == 32

ACC_MZ_ARRAY == 1000514
ACC_INTENSITY_ARRAY == 1000515
ACC_TIME_ARRAY == 1000595
ACC_32BIT_FLOAT == 1000521
ACC_64BIT_FLOAT == 1000523
ACC_ZLIB_COMPRESSION == 1000574
ACC_NO_COMPRESSION == 1000576

HDR_CODEC_ZLIB == 0
HDR_CODEC_ZSTD == 1

ARRAY_FILTER_NONE == 0
ARRAY_FILTER_BYTE_SHUFFLE == 1

ACC_ISO_TARGET_MZ == 1000827
ACC_ISO_LOWER_OFFSET == 1000828
ACC_ISO_UPPER_OFFSET == 1000829
ACC_SELECTED_ION_MZ == 1000744
ACC_CHARGE_STATE == 1000041
ACC_IN_SOURCE_CID == 1001880
ACC_COLLISION_ENERGY == 1000045

CK == {"sx", "sy", "cx", "cy"}

\* Option<T>: the empty sequence is None, a one-element sequence is Some(v).
None == <<>>
Some(v) == <<v>>
IsSome(o) == o # <<>>

\* Result<T, String> of a helper: ok, the value, and the error message.
Ok(v) == [ok |-> TRUE, val |-> v, msg |-> ""]
Err(m) == [ok |-> FALSE, val |-> <<>>, msg |-> m]

\* F applied to the value of x: a local binding, x computed once.
Bind(x, F(_)) == CHOOSE r \in { F(v) : v \in { x } } : TRUE

RECURSIVE SumSeq(_)
SumSeq(s) == IF s = <<>> THEN 0 ELSE s[1] + SumSeq(Tail(s))

RECURSIVE Flatten(_)
Flatten(ss) == IF ss = <<>> THEN <<>> ELSE ss[1] \o Flatten(Tail(ss))

SelectIdx(s, P(_)) ==
    LET RECURSIVE Go(_)
        Go(k) == IF k > Len(s) THEN <<>>
                 ELSE (IF P(s[k]) THEN <<s[k]>> ELSE <<>>) \o Go(k + 1)
    IN Go(1)

RECURSIVE IndexOf(_, _)
IndexOf(s, x) == IF s = <<>> THEN 0 ELSE IF s[1] = x THEN 1 ELSE
                 (LET r == IndexOf(Tail(s), x) IN IF r = 0 THEN 0 ELSE r + 1)

RECURSIVE Dedup(_)
Dedup(s) == IF s = <<>> THEN <<>>
            ELSE LET d == Dedup(SubSeq(s, 1, Len(s) - 1))
                 IN IF IndexOf(d, s[Len(s)]) = 0 THEN Append(d, s[Len(s)]) ELSE d

\* Sum of the first k entries of s.
PrefixSum(s, k) == SumSeq(SubSeq(s, 1, k))

----------------------------------------------------------------------------
(* Documents: the part of the mzML tree the run carries.                   *)

Text(s) == [k |-> "text", s |-> s, n |-> 0]
Num(n) == [k |-> "num", s |-> <<>>, n |-> n]
Empty == [k |-> "empty", s |-> <<>>, n |-> 0]

\* A parameter of a document: prefix "USER" is a user param (tail: its dictionary id).
Param(prefix, tail, val, uprefix, utail) ==
    [prefix |-> prefix, tail |-> tail, val |-> val, uprefix |-> uprefix, utail |-> utail]

\* The numeric value of element j of item i's array on one axis.
ArrLen(i) == ((i - 1) % MaxLen) + 1
ArrVals(axis, i) == [j \in 1..ArrLen(i) |-> axis * 100 + 10 * i + j]

SpecTemplates ==
    { [id |-> <<"S", "1", "9">>,
       cv |-> << Param("MS", 1000511, Text(<<"1">>), "", 0) >>,
       user |-> <<>>],
      [id |-> <<"S", "2", "0">>,
       cv |-> << Param("MS", 1000511, Text(<<"2">>), "", 0),
                 Param("MS", ACC_COLLISION_ENERGY, Num(35), "UO", 266) >>,
       user |-> << Param("USER", 7, Text(<<"x">>), "", 0) >>] }

ChromTemplate ==
    [id |-> <<"t", "i", "c">>,
     cv |-> << Param("MS", 1000235, Empty, "", 0) >>,
     user |-> <<>>]

SeqsUpTo(S, n) == UNION { [1..k -> S] : k \in 0..n }

Docs == { [spectra |-> s, chroms |-> [j \in 1..c |-> ChromTemplate]] :
            s \in SeqsUpTo(SpecTemplates, MaxSpectra), c \in 0..MaxChroms }

\* The arrays of a document's items: item i of container k ("sx": spectrum m/z,
\* "sy": spectrum intensity, "cx": chromatogram time, "cy": chromatogram intensity).
DocArray(k, i) ==
    ArrVals(CASE k = "sx" -> 1 [] k = "sy" -> 2 [] k = "cx" -> 3 [] OTHER -> 4, i)

ItemCount(d, k) == IF k \in {"sx", "sy"} THEN Len(d.spectra) ELSE Len(d.chroms)

----------------------------------------------------------------------------
(* Bytes, floats and the codecs.                                           *)

\* The little-endian bytes of the float with value v in an es-byte format.
FloatBytes(v, es) == [p \in 1..es |-> CASE p = 1 -> v % 256
                                         [] p = 2 -> (v \div 256) % 256
                                         [] OTHER -> p]

ArrayBytes(vals, es) == Flatten([j \in 1..Len(vals) |-> FloatBytes(vals[j], es)])

\* Byte-shuffle: byte p of element e goes to position p*N+e (0-based).
Shuffle(bytes, es) ==
    LET n == Len(bytes) \div es
    IN [q \in 1..Len(bytes) |-> bytes[((q - 1) % n) * es + ((q - 1) \div n) + 1]]

\* The stored form of a byte string: "raw", or the stream a codec wrote.
\* size is the stored length.
Stored(kind, data) ==
    [kind |-> kind, data |-> data,
     size |-> IF kind = "raw" THEN Len(data) ELSE (Len(data) \div 2) + 6]

CodecName(codec) == CASE codec = HDR_CODEC_ZLIB -> "zlib"
                      [] codec = HDR_CODEC_ZSTD -> "zstd"
                      [] OTHER -> "unknown"

\* decompress_to_vec_zlib / zstd decode_all: a stream inflates under the codec
\* that wrote it, and is garbage to the other one.
Inflate(name, blob) == IF blob.kind = name THEN Ok(blob.data) ELSE Err("decompression failed")

\* zstd::bulk::decompress(comp, capacity): fails when the output exceeds capacity.
InflateBulk(blob, capacity) ==
    IF blob.kind = "zstd" /\ Len(blob.data) <= capacity
    THEN Ok(blob.data) ELSE Err("decompression failed")

----------------------------------------------------------------------------
(* The encoder, from the format's description: metadata blocks.            *)

REF_CODE_USER == 255
REF_CODE_ATTR == 4
ACC_ATTR_ID == 9900001
ACC_ATTR_INDEX == 9900005

RefCode(prefix) == CASE prefix = "MS" -> 0 [] prefix = "UO" -> 1
                     [] prefix = "NCIT" -> 2 [] prefix = "PEFF" -> 3
                     [] prefix = "B000" -> REF_CODE_ATTR
                     [] OTHER -> REF_CODE_USER

FloatAcc(fmt) == IF fmt = 1 THEN ACC_32BIT_FLOAT ELSE ACC_64BIT_FLOAT

\* The params a document holds on the two binaryDataArrays of an item.
BdaParams(xAcc, fmt) ==
    << Param("MS", xAcc, Empty, "", 0),
       Param("MS", FloatAcc(fmt), Empty, "", 0),
       Param("MS", ACC_NO_COMPRESSION, Empty, "", 0) >>

\* Everything the encoder writes for one item: its attributes as B000 params,
\* its CV params, its user params, the params of its two arrays.
ItemMetadata(e, i, xAcc, fmt) ==
    << Param("B000", ACC_ATTR_ID, Text(e.id), "", 0),
       Param("B000", ACC_ATTR_INDEX, Num(i - 1), "", 0) >>
    \o e.cv \o e.user
    \o BdaParams(xAcc, fmt) \o BdaParams(ACC_INTENSITY_ARRAY, fmt)

\* A metadata block (the columns of section 4.4) for the items' params.
EncodeMetaBlock(items) ==
    LET all == Flatten(items)
        nums == Dedup([j \in 1..Len(SelectIdx(all, LAMBDA q : q.val.k = "num")) |->
                         SelectIdx(all, LAMBDA q : q.val.k = "num")[j].val.n])
        strs == Dedup([j \in 1..Len(SelectIdx(all, LAMBDA q : q.val.k = "text")) |->
                         SelectIdx(all, LAMBDA q : q.val.k = "text")[j].val.s])
        lens == [j \in 1..Len(strs) |-> Len(strs[j])]
    IN [item_indices |-> [j \in 1..(Len(items) + 1) |->
                            SumSeq([q \in 1..(j - 1) |-> Len(items[q])])],
        meta_ref_codes |-> [m \in 1..Len(all) |-> RefCode(all[m].prefix)],
        meta_accessions |-> [m \in 1..Len(all) |-> all[m].tail],
        meta_unit_refs |-> [m \in 1..Len(all) |-> RefCode(all[m].uprefix)],
        meta_unit_accessions |-> [m \in 1..Len(all) |-> all[m].utail],
        value_kinds |-> [m \in 1..Len(all) |->
                           CASE all[m].val.k = "num" -> 0 [] all[m].val.k = "text" -> 1
                             [] OTHER -> 2],
        value_indices |-> [m \in 1..Len(all) |->
                           CASE all[m].val.k = "num" -> IndexOf(nums, all[m].val.n) - 1
                             [] all[m].val.k = "text" -> IndexOf(strs, all[m].val.s) - 1
                             [] OTHER -> 0],
        numeric_values |-> nums,
        string_offsets |-> [j \in 1..Len(strs) |-> PrefixSum(lens, j - 1)],
        string_lengths |-> lens,
        strings_data |-> Flatten(strs)]

\* The byte length of a metadata block.
MetaBytes(b) ==
    4 * Len(b.item_indices) + 15 * Len(b.meta_ref_codes) + 8 * Len(b.numeric_values)
    + 8 * Len(b.string_offsets) + Len(b.strings_data)

StoredMeta(kind, block) ==
    [kind |-> kind, data |-> block,
     size |-> IF kind = "raw" THEN MetaBytes(block) ELSE (MetaBytes(block) \div 2) + 6]

----------------------------------------------------------------------------
(* The encoder: array containers, index entries, layout and header.        *)

ElemSize(fmt) == IF fmt = 1 THEN 4 ELSE 8

\* How the encoder was run.  blocking: one block per item, or all items packed in
\* one block.
Profiles ==
    { [fmt |-> 2, level |-> 0, codec |-> HDR_CODEC_ZLIB, filter |-> ARRAY_FILTER_NONE,
       metaComp |-> FALSE, blocking |-> "perItem"],
      [fmt |-> 2, level |-> 0, codec |-> HDR_CODEC_ZLIB, filter |-> ARRAY_FILTER_NONE,
       metaComp |-> FALSE, blocking |-> "single"],
      [fmt |-> 1, level |-> 0, codec |-> HDR_CODEC_ZLIB, filter |-> ARRAY_FILTER_BYTE_SHUFFLE,
       metaComp |-> FALSE, blocking |-> "single"],
      [fmt |-> 2, level |-> 12, codec |-> HDR_CODEC_ZLIB, filter |-> ARRAY_FILTER_BYTE_SHUFFLE,
       metaComp |-> TRUE, blocking |-> "single"],
      [fmt |-> 1, level |-> 12, codec |-> HDR_CODEC_ZSTD, filter |-> ARRAY_FILTER_BYTE_SHUFFLE,
       metaComp |-> TRUE, blocking |-> "perItem"] }

\* One container: its directory, its stored blocks, and the index triples
\* (element offset, element count, block id) of its items.
ContainerBlocks(arrays, p) ==
    LET itemBytes == [i \in 1..Len(arrays) |-> ArrayBytes(arrays[i], ElemSize(p.fmt))]
    IN IF Len(arrays) = 0 THEN <<>>
       ELSE IF p.blocking = "single" THEN << Flatten(itemBytes) >>
       ELSE itemBytes

StoredBlocks(blocks, p) ==
    [b \in 1..Len(blocks) |->
       Stored(IF p.level = 0 THEN "raw" ELSE CodecName(p.codec),
              IF p.filter = ARRAY_FILTER_BYTE_SHUFFLE
              THEN Shuffle(blocks[b], ElemSize(p.fmt)) ELSE blocks[b])]

ContainerRegion(arrays, p, blocks, stored) ==
    LET n == Len(arrays)
        sizes == [b \in 1..Len(blocks) |-> stored[b].size]
        lens == [i \in 1..n |-> Len(arrays[i])]
    IN [size |-> IF n = 0 THEN 0 ELSE BLOCK_DIR_ENTRY_SIZE * Len(blocks) + SumSeq(sizes),
        block_count |-> Len(blocks),
        fmt |-> p.fmt,
        dir |-> [b \in 1..Len(blocks) |->
                   [comp_off |-> PrefixSum(sizes, b - 1),
                    comp_size |-> sizes[b],
                    uncomp_bytes |-> Len(blocks[b])]],
        blocks |-> stored,
        index |-> [i \in 1..n |->
                   [off |-> PrefixSum(lens, i - 1), len |-> lens[i],
                    block |-> IF p.blocking = "single" THEN 0 ELSE i - 1]]]

EncodeContainer(arrays, p) ==
    Bind(ContainerBlocks(arrays, p), LAMBDA blocks :
        Bind(StoredBlocks(blocks, p), LAMBDA stored :
            ContainerRegion(arrays, p, blocks, stored)))

IndexEntries(cx, cy) ==
    [i \in 1..Len(cx.index) |->
       [x_off |-> cx.index[i].off, y_off |-> cy.index[i].off,
        x_len |-> cx.index[i].len, y_len |-> cy.index[i].len,
        x_block |-> cx.index[i].block, y_block |-> cy.index[i].block]]

\* The global metadata region of an empty global block gb.
StoredGlobal(kind, gb) ==
    [kind |-> kind, counts |-> [j \in 1..8 |-> 0], data |-> gb,
     size |-> IF kind = "raw" THEN 32 + MetaBytes(gb)
              ELSE ((32 + MetaBytes(gb)) \div 2) + 6]

\* The regions of encode(D) before they are laid out: the four containers and
\* the three metadata regions.
EncodeRegions(d, p) ==
    LET kind == IF p.metaComp THEN CodecName(p.codec) ELSE "raw"
    IN [c |-> [k \in CK |->
                 EncodeContainer([i \in 1..ItemCount(d, k) |-> DocArray(k, i)], p)],
        sm |-> StoredMeta(kind, EncodeMetaBlock(
                 [i \in 1..Len(d.spectra) |->
                    ItemMetadata(d.spectra[i], i, ACC_MZ_ARRAY, p.fmt)])),
        cm |-> StoredMeta(kind, EncodeMetaBlock(
                 [j \in 1..Len(d.chroms) |->
                    ItemMetadata(d.chroms[j], j, ACC_TIME_ARRAY, p.fmt)])),
        gm |-> Bind(EncodeMetaBlock(<<>>), LAMBDA gb : StoredGlobal(kind, gb))]

\* The header and the layout of the regions r of document d under profile p.
EncodeLayout(d, p, r) ==
    LET c == r.c
        sm == r.sm
        cm == r.cm
        gm == r.gm
        ns == Len(d.spectra)
        nc == Len(d.chroms)
        offSI == HEADER_SIZE
        offCI == HEADER_SIZE + INDEX_ENTRY_SIZE * ns
        offSM == HEADER_SIZE + INDEX_ENTRY_SIZE * (ns + nc)
        offCM == offSM + sm.size
        offGM == offCM + cm.size
        offSX == offGM + gm.size
        offSY == offSX + c["sx"].size
        offCX == offSY + c["sy"].size
        offCY == offCX + c["cx"].size
        offs == [k \in CK |-> CASE k = "sx" -> offSX [] k = "sy" -> offSY
                                 [] k = "cx" -> offCX [] OTHER -> offCY]
    IN [len |-> offCY + c["cy"].size,
        magic |-> "B000", endian |-> 0,
        off_spec_index |-> offSI, off_chrom_index |-> offCI,
        off_spec_meta |-> offSM, off_chrom_meta |-> offCM, off_global_meta |-> offGM,
        cont |-> [k \in CK |->
                    [size |-> c[k].size,
                     off |-> IF c[k].size = 0 THEN 0 ELSE offs[k],
                     block_count |-> c[k].block_count, fmt |-> c[k].fmt,
                     dir |-> c[k].dir, blocks |-> c[k].blocks]],
        spectrum_count |-> ns, chrom_count |-> nc,
        spec_meta |-> sm, chrom_meta |-> cm, global_meta |-> gm,
        spec_counts |-> [meta |-> Len(sm.data.meta_ref_codes),
                         num |-> Len(sm.data.numeric_values),
                         str |-> Len(sm.data.string_offsets)],
        chrom_counts |-> [meta |-> Len(cm.data.meta_ref_codes),
                          num |-> Len(cm.data.numeric_values),
                          str |-> Len(cm.data.string_offsets)],
        global_counts |-> [meta |-> 0, num |-> 0, str |-> 0],
        codec |-> p.codec,
        spec_meta_comp |-> p.metaComp, chrom_meta_comp |-> p.metaComp,
        global_meta_comp |-> p.metaComp,
        compression_level |-> p.level, array_filter |-> p.filter,
        spec_index |-> IndexEntries(c["sx"], c["sy"]),
        chrom_index |-> IndexEntries(c["cx"], c["cy"])]

\* encode(D): the file of document d under profile p.
Encode(d, p) == Bind(EncodeRegions(d, p), LAMBDA r : EncodeLayout(d, p, r))

----------------------------------------------------------------------------
(* Input files: encoder outputs, and damaged variants of them.             *)

EmptyBlock ==
    [item_indices |-> <<>>, meta_ref_codes |-> <<>>, meta_accessions |-> <<>>,
     meta_unit_refs |-> <<>>, meta_unit_accessions |-> <<>>, value_kinds |-> <<>>,
     value_indices |-> <<>>, numeric_values |-> <<>>, string_offsets |-> <<>>,
     string_lengths |-> <<>>, strings_data |-> <<>>]

\* A 192-byte file: valid magic and endianness, the four format bytes fmt, and
\* every other header field zero.
ZeroFile(fmt) ==
    [len |-> HEADER_SIZE, magic |-> "B000", endian |-> 0,
     off_spec_index |-> 0, off_chrom_index |-> 0,
     off_spec_meta |-> 0, off_chrom_meta |-> 0, off_global_meta |-> 0,
     cont |-> [k \in CK |-> [size |-> 0, off |-> 0, block_count |-> 0, fmt |-> fmt,
                             dir |-> <<>>, blocks |-> <<>>]],
     spectrum_count |-> 0, chrom_count |-> 0,
     spec_meta |-> [kind |-> "raw", data |-> EmptyBlock, size |-> 0],
     chrom_meta |-> [kind |-> "raw", data |-> EmptyBlock, size |-> 0],
     global_meta |-> [kind |-> "raw", counts |-> <<>>, data |-> EmptyBlock, size |-> 0],
     spec_counts |-> [meta |-> 0, num |-> 0, str |-> 0],
     chrom_counts |-> [meta |-> 0, num |-> 0, str |-> 0],
     global_counts |-> [meta |-> 0, num |-> 0, str |-> 0],
     codec |-> 0,
     spec_meta_comp |-> FALSE, chrom_meta_comp |-> FALSE, global_meta_comp |-> FALSE,
     compression_level |-> 0, array_filter |-> 0,
     spec_index |-> <<>>, chrom_index |-> <<>>]

Mutations ==
    { "none", "bad_magic", "bad_endian", "fmt_zero",
      "swap_index_regions",
      "swap_meta_offsets", "global_before_chrom", "container_before_global",
      "codec_unknown",
      "x_off_plus", "x_off_minus", "x_len_plus", "y_len_minus", "x_block_out", "x_block_other",
      "uncomp_less", "uncomp_more", "uncomp_zero", "payload_short",
      "item_index_big", "item_index_short", "item_index_decreasing",
      "value_index_big", "string_past_end", "ref_code_user",
      "sx_size_zero", "sy_block_count_zero", "sx_empty_zero_entries",
      "zero_header", "zero_header_fmt" }

Cuts == { "none", "empty", "below_header", "tail" }

\* The file f damaged in one place; f itself where the damage does not apply.
Mutate(f, m) ==
    LET ns == Len(f.spec_index)
        nb == Len(f.cont["sx"].dir)
        es == ElemSize(f.cont["sx"].fmt)
    IN CASE m = "bad_magic" -> [f EXCEPT !.magic = "XXXX"]
         [] m = "bad_endian" -> [f EXCEPT !.endian = 1]
         [] m = "fmt_zero" -> [f EXCEPT !.cont["sx"].fmt = 0]
         [] m = "swap_index_regions" /\ Len(f.chrom_index) > 0 ->
              [f EXCEPT !.off_chrom_index = HEADER_SIZE,
                        !.off_spec_index = HEADER_SIZE
                                           + INDEX_ENTRY_SIZE * Len(f.chrom_index)]
         [] m = "swap_meta_offsets" ->
              [f EXCEPT !.off_spec_meta = f.off_chrom_meta,
                        !.off_chrom_meta = f.off_spec_meta]
         [] m = "global_before_chrom" ->
              [f EXCEPT !.off_global_meta = f.off_chrom_meta - 1]
         [] m = "container_before_global" ->
              [f EXCEPT !.cont = [k \in CK |->
                  IF f.cont[k].off = 0 THEN f.cont[k]
                  ELSE [f.cont[k] EXCEPT !.off = f.off_global_meta - 1]]]
         [] m = "codec_unknown" -> [f EXCEPT !.codec = 2]
         [] m = "x_off_plus" /\ ns > 0 ->
              [f EXCEPT !.spec_index[ns].x_off = @ + 1]
         [] m = "x_off_minus" /\ ns > 1 ->
              [f EXCEPT !.spec_index[ns].x_off = @ - 1]
         [] m = "x_len_plus" /\ ns > 0 ->
              [f EXCEPT !.spec_index[ns].x_len = @ + 1]
         [] m = "y_len_minus" /\ ns > 0 /\ f.spec_index[ns].y_len > 0 ->
              [f EXCEPT !.spec_index[ns].y_len = @ - 1]
         [] m = "x_block_out" /\ ns > 0 ->
              [f EXCEPT !.spec_index[ns].x_block = nb]
         [] m = "x_block_other" /\ ns > 1 /\ nb > 1 ->
              [f EXCEPT !.spec_index[ns].x_block = 0]
         [] m = "uncomp_less" /\ nb > 0 ->
              [f EXCEPT !.cont["sx"].dir[nb].uncomp_bytes = @ - es]
         [] m = "uncomp_more" /\ nb > 0 ->
              [f EXCEPT !.cont["sx"].dir[nb].uncomp_bytes = @ + es]
         [] m = "uncomp_zero" /\ nb > 0 ->
              [f EXCEPT !.cont["sx"].dir[nb].uncomp_bytes = 0]
         [] m = "payload_short" /\ nb > 0 /\ f.cont["sx"].blocks[nb].kind # "raw" ->
              [f EXCEPT !.cont["sx"].blocks[nb].data = SubSeq(@, 1, Len(@) - es)]
         [] m = "item_index_big" /\ ns > 0 ->
              [f EXCEPT !.spec_meta.data.item_indices[ns + 1] = f.spec_counts.meta + 1]
         [] m = "item_index_short" /\ ns > 0 /\ f.spec_counts.meta > 0 ->
              [f EXCEPT !.spec_meta.data.item_indices[ns + 1] = f.spec_counts.meta - 1]
         [] m = "item_index_decreasing" /\ ns > 0 ->
              [f EXCEPT !.spec_meta.data.item_indices[1] =
                            f.spec_meta.data.item_indices[2] + 1]
         [] m = "value_index_big" /\ f.spec_counts.meta > 0 ->
              [f EXCEPT !.spec_meta.data.value_indices[f.spec_counts.meta] =
                            f.spec_counts.num + f.spec_counts.str]
         [] m = "ref_code_user" /\ f.spec_counts.meta > 0 ->
              [f EXCEPT !.spec_meta.data.meta_ref_codes[f.spec_counts.meta] = 255]
         [] m = "string_past_end" /\ f.spec_counts.str > 0 ->
              [f EXCEPT !.spec_meta.data.string_lengths[f.spec_counts.str] =
                            Len(f.spec_meta.data.strings_data) + 1]
         [] m = "sx_size_zero" /\ ns > 0 -> [f EXCEPT !.cont["sx"].size = 0]
         [] m = "sy_block_count_zero" /\ ns > 0 ->
              [f EXCEPT !.cont["sy"].block_count = 0]
         [] m = "sx_empty_zero_entries" /\ ns > 0 ->
              [f EXCEPT !.cont["sx"].size = 0,
                        !.spec_index = [i \in 1..ns |->
                            [f.spec_index[i] EXCEPT !.x_off = 0, !.x_len = 0,
                                                    !.x_block = 0]]]
         [] m = "zero_header" -> ZeroFile(0)
         [] m = "zero_header_fmt" -> ZeroFile(2)
         [] OTHER -> f

\* The first bytes of f only.
Cut(f, c) ==
    CASE c = "empty" -> [f EXCEPT !.len = 0]
      [] c = "below_header" -> [f EXCEPT !.len = HEADER_SIZE - 1]
      [] c = "tail" -> [f EXCEPT !.len = f.len - 1]
      [] OTHER -> f

----------------------------------------------------------------------------
(* The decoder's helpers (utilities/decode.rs).                            *)

\* read_slice(b, o, l) on a buffer of blen bytes: the range must lie inside it.
read_slice(blen, o, l) == IF o + l <= blen THEN Ok(l) ELSE Err("EOF")

fmt_elem_size(fmt) == CASE fmt = 1 -> Ok(4) [] fmt = 2 -> Ok(8)
                        [] OTHER -> Err("Invalid float format")

\* min_nonzero_usize: the smallest non-zero entry, None when there is none.
min_nonzero_usize(xs) ==
    LET nz == { x \in xs : x # 0 }
    IN IF nz = {} THEN None ELSE Some(CHOOSE x \in nz : \A y \in nz : x <= y)

Digits == << "0", "1", "2", "3", "4", "5", "6", "7", "8", "9" >>

\* u32 / f64 (of an integral value) to_string: the decimal digits.
RECURSIVE NumToString(_)
NumToString(n) == IF n < 10 THEN << Digits[n + 1] >>
                  ELSE Append(NumToString(n \div 10), Digits[(n % 10) + 1])

\* An accession string "PREFIX:TAIL": its prefix ("" and no colon when there is
\* none), whether the tail starts with the letter C, and the tail's number.
Accession(prefix, colon, c, num) ==
    [prefix |-> prefix, colon |-> colon, c |-> c, num |-> num]

cv_ref_from_code(c) == CASE c = 0 -> Some("MS") [] c = 1 -> Some("UO")
                         [] c = 2 -> Some("NCIT") [] c = 3 -> Some("PEFF")
                         [] OTHER -> None

make_accession(r, a) ==
    IF a = 0 THEN None
    ELSE IF r = None THEN Some(Accession("", FALSE, FALSE, a))
    ELSE IF r[1] = "NCIT" THEN Some(Accession("NCIT", TRUE, TRUE, a))
    ELSE Some(Accession(r[1], TRUE, FALSE, a))

\* parse_acc_tail: what follows the last colon, parsed as u32; 0 when that fails.
parse_acc_tail(acc) == IF acc = None THEN 0 ELSE IF acc[1].c THEN 0 ELSE acc[1].num

\* cv_table.rs 5-16: the CV table, built once per process from cv_table.json.
\* Its keys are kept (prefix, number); the name of a term stands for its entry.
TABLE ==
    { <<"MS", n>> : n \in { ACC_MZ_ARRAY, ACC_INTENSITY_ARRAY, ACC_TIME_ARRAY,
                            ACC_32BIT_FLOAT, ACC_64BIT_FLOAT, ACC_ZLIB_COMPRESSION,
                            ACC_NO_COMPRESSION, ACC_ISO_TARGET_MZ, ACC_SELECTED_ION_MZ,
                            ACC_CHARGE_STATE, ACC_COLLISION_ENERGY, 1000511, 1000235 } }
    \cup { <<"UO", 266>> }

\* A lookup that misses while the table has not been built yet.
table_get_cold(prefix, num) ==
    IF table_ready /\ <<prefix, num>> \in TABLE THEN Some(<< "name", prefix, num >>)
    ELSE None

\* cv_table::get(format!("{}:{:07}", prefix, num)) as a string: the first use
\* builds the table, every use reads the same table.
table_get(prefix, num) ==
    IF <<prefix, num>> \in TABLE THEN Some(<< "name", prefix, num >>) ELSE None

\* decode.rs 1208-1215
cv_name_from_code(r, a) == IF a = 0 \/ r = None THEN None ELSE table_get(r[1], a)

\* Option<String>::unwrap_or_default()
unwrap_or_default(o) == IF o = None THEN <<>> ELSE o[1]

CvParam(cv_ref, accession, name, value, unit_cv_ref, unit_accession, unit_name) ==
    [cv_ref |-> cv_ref, accession |-> accession, name |-> name, value |-> value,
     unit_cv_ref |-> unit_cv_ref, unit_accession |-> unit_accession,
     unit_name |-> unit_name]

ms_cv_param(tail) ==
    CvParam(Some("MS"), Some(Accession("MS", TRUE, FALSE, tail)),
            unwrap_or_default(table_get("MS", tail)), None, None, None, None)

\* The value of metadatum m (1-based) of block b: Some(text) or None.
MetaValue(b, m, num_count, str_count, strings_data) ==
    LET kind == b.value_kinds[m]
        idx == b.value_indices[m]
    IN IF kind = 0 /\ idx < num_count THEN Some(NumToString(b.numeric_values[idx + 1]))
       ELSE IF kind = 1 /\ idx < str_count THEN
           LET s_off == b.string_offsets[idx + 1]
               s_len == b.string_lengths[idx + 1]
           IN IF s_off + s_len <= Len(strings_data)
              THEN Some(SubSeq(strings_data, s_off + 1, s_off + s_len))
              ELSE Some(<<>>)
       ELSE None

MetaParam(b, m, num_count, str_count, strings_data) ==
    LET cv_ref == cv_ref_from_code(b.meta_ref_codes[m])
        unit_ref == cv_ref_from_code(b.meta_unit_refs[m])
    IN CvParam(cv_ref, make_accession(cv_ref, b.meta_accessions[m]),
               unwrap_or_default(cv_name_from_code(cv_ref, b.meta_accessions[m])),
               MetaValue(b, m, num_count, str_count, strings_data),
               unit_ref, make_accession(unit_ref, b.meta_unit_accessions[m]),
               cv_name_from_code(unit_ref, b.meta_unit_accessions[m]))

\* Whether building metadatum m reaches cv_table::get.
MetaLooksUp(b, m) ==
    \/ b.meta_accessions[m] # 0 /\ cv_ref_from_code(b.meta_ref_codes[m]) # None
    \/ b.meta_unit_accessions[m] # 0 /\ cv_ref_from_code(b.meta_unit_refs[m]) # None

\* decode_meta_block on a slice of avail bytes holding block b.  The result is
\* [kind |-> "ok", items], [kind |-> "err", msg] or [kind |-> "panic"]: indexing
\* value_kinds[m] with m >= meta_count aborts the call.  looked tells whether
\* the call reached the CV table (the metadata built before a panic count).
decode_meta_block(b, avail, item_count, meta_count, num_count, str_count) ==
    LET need == (item_count + 1) * 4 + 15 * meta_count + num_count * 8 + str_count * 8
        strings_data == SubSeq(b.strings_data, 1, avail - need)
        start(i) == b.item_indices[i]
        end(i) == b.item_indices[i + 1]
        aborts(i) == start(i) < end(i) /\ end(i) > meta_count
        looked == \E i \in 1..item_count :
                      /\ \A h \in 1..(i - 1) : ~aborts(h)
                      /\ \E m \in (start(i) + 1)..end(i) :
                             m <= meta_count /\ MetaLooksUp(b, m)
    IN IF need > avail
       THEN [kind |-> "err", msg |-> "EOF", items |-> <<>>, looked |-> FALSE]
       ELSE IF \E i \in 1..item_count : aborts(i)
       THEN [kind |-> "panic", msg |-> "index out of bounds", items |-> <<>>,
             looked |-> looked]
       ELSE [kind |-> "ok", msg |-> "", looked |-> looked,
             items |-> [i \in 1..item_count |->
                          [q \in 1..(IF end(i) > start(i) THEN end(i) - start(i) ELSE 0) |->
                             MetaParam(b, start(i) + q, num_count, str_count,
                                       strings_data)]]]

----------------------------------------------------------------------------
(* Container: block directory, lazily materialized blocks.                 *)

\* An empty container that serves one block of no bytes.
ContainerEmptyWithBlock ==
    [region_len |-> 0, blocks |-> << [kind |-> "raw", data |-> <<>>, size |-> 0] >>,
     dir |-> << [comp_off |-> 0, comp_size |-> 0, uncomp_bytes |-> 0] >>,
     block_start_elems |-> << 0, 0 >>,
     cache |-> << <<>> >>, codec |-> HDR_CODEC_ZLIB, compression_level |-> 0,
     elem_size |-> 1, array_filter |-> ARRAY_FILTER_NONE, scratch |-> <<>>]

\* Container::empty()
ContainerEmpty ==
    [region_len |-> 0, blocks |-> <<>>, dir |-> <<>>, block_start_elems |-> << 0 >>,
     cache |-> <<>>, codec |-> HDR_CODEC_ZLIB, compression_level |-> 0,
     elem_size |-> 1, array_filter |-> ARRAY_FILTER_NONE, scratch |-> <<>>]

\* Block starts counted in bytes instead of elements.
block_starts_in_bytes(dir, elem_size) ==
    [b \in 1..(Len(dir) + 1) |->
       SumSeq([q \in 1..(b - 1) |-> dir[q].uncomp_bytes])]

\* Container::new, decode.rs 125-134: the running sum of the element counts of
\* the directory entries; entry b (1-based) is the start of block b - 1.
block_starts(dir, elem_size) ==
    [b \in 1..(Len(dir) + 1) |->
       SumSeq([q \in 1..(b - 1) |-> dir[q].uncomp_bytes \div elem_size])]

\* Container::new on the container region k of file f.
ContainerNew(f, k, codec, compression_level, elem_size, array_filter) ==
    LET h == f.cont[k]
        dir_bytes == h.block_count * BLOCK_DIR_ENTRY_SIZE
    IN IF h.size = 0 \/ h.block_count = 0 THEN Ok(ContainerEmpty)
       ELSE IF elem_size = 0 THEN Err("Invalid elem_size")
       ELSE IF ~read_slice(f.len, h.off, h.size).ok THEN Err("EOF")
       ELSE IF dir_bytes > h.size THEN Err("Container too small for block directory")
       ELSE Ok([region_len |-> h.size - dir_bytes,
                blocks |-> h.blocks,
                dir |-> h.dir,
                block_start_elems |-> block_starts(h.dir, elem_size),
                cache |-> [b \in 1..h.block_count |-> None],
                codec |-> codec, compression_level |-> compression_level,
                elem_size |-> elem_size, array_filter |-> array_filter,
                scratch |-> <<>>])

\* The stored bytes of a block as they lie in the compressed region.
StreamBytes(blob) == IF blob.kind = "raw" THEN blob.data
                     ELSE [q \in 1..blob.size |-> 255]

\* A routine that copies the planes without transposing them.
unshuffle_copy(src, elem_size) == Ok(src)

\* unshuffle_into(dst, src, elem_size) with dst already resized to src's length.
unshuffle_into(src, elem_size) ==
    IF elem_size <= 1 THEN Ok(src)
    ELSE IF Len(src) % elem_size # 0 THEN Err("unshuffle: invalid byte length")
    ELSE LET n == Len(src) \div elem_size
         IN Ok([q \in 1..Len(src) |->
                  src[((q - 1) % elem_size) * n + ((q - 1) \div elem_size) + 1]])

\* The size test block_bytes applies to a freshly produced block.
SizeMismatch(uncomp_bytes, got) == uncomp_bytes # 0 /\ got # uncomp_bytes

\* The block before the shuffle filter is undone: the stored bytes (level 0) or
\* the inflated stream.
BlockPayload(c, e, blob) ==
    IF c.compression_level = 0
    THEN (IF SizeMismatch(e.uncomp_bytes, e.comp_size)
          THEN Err("Uncompressed block size mismatch") ELSE Ok(StreamBytes(blob)))
    ELSE Bind(CASE c.codec = HDR_CODEC_ZLIB -> Inflate("zlib", blob)
                [] c.codec = HDR_CODEC_ZSTD -> InflateBulk(blob, e.uncomp_bytes)
                [] OTHER -> Err("Unsupported container codec"),
              LAMBDA inflated :
                  IF ~inflated.ok THEN inflated
                  ELSE IF SizeMismatch(e.uncomp_bytes, Len(inflated.val))
                  THEN Err("Inflated block size mismatch")
                  ELSE inflated)

\* The zero-filled resize of the scratch buffer to n bytes.
Resized(scratch, n) == [q \in 1..n |-> IF q <= Len(scratch) THEN scratch[q] ELSE 0]

\* block_bytes from the cache test on (decode.rs 179-213): the block is built,
\* unshuffled through the scratch buffer, and cached.
FillCache(c, id, payload) ==
    IF ~payload.ok THEN [res |-> payload, c |-> c, how |-> "fill"]
    ELSE IF c.array_filter = ARRAY_FILTER_BYTE_SHUFFLE /\ c.elem_size > 1
            /\ payload.val # <<>>
    THEN Bind(unshuffle_into(payload.val, c.elem_size), LAMBDA block :
             IF ~block.ok
             THEN [res |-> block, how |-> "fill",
                   c |-> [c EXCEPT !.scratch = Resized(@, Len(payload.val))]]
             ELSE [res |-> block, how |-> "fill",
                   c |-> [c EXCEPT !.cache[id + 1] = Some(block.val),
                                   !.scratch = payload.val]])
    ELSE [res |-> payload, how |-> "fill",
          c |-> [c EXCEPT !.cache[id + 1] = Some(payload.val)]]

\* Whether block_bytes works on an owned copy of the block.
needs_owned(c) ==
    c.compression_level # 0
    \/ (c.array_filter = ARRAY_FILTER_BYTE_SHUFFLE /\ c.elem_size > 1)

\* A block_bytes that does not look into the cache.
block_bytes_uncached(c, id) ==
    IF id >= Len(c.dir) THEN [res |-> Err("Invalid block id"), c |-> c, how |-> "none"]
    ELSE IF ~needs_owned(c)
    THEN [res |-> Ok(StreamBytes(c.blocks[id + 1])), c |-> c, how |-> "direct"]
    ELSE FillCache(c, id, BlockPayload(c, c.dir[id + 1], c.blocks[id + 1]))

\* Container::block_bytes: the result, the container afterwards, and how the
\* call was served: "none" (refused), "direct" (the stored bytes, borrowed),
\* "cache" (the cache entry found), "fill" (the block built in this call).
block_bytes(c, id) ==
    IF id >= Len(c.dir) THEN [res |-> Err("Invalid block id"), c |-> c, how |-> "none"]
    ELSE IF c.dir[id + 1].comp_off + c.dir[id + 1].comp_size > c.region_len
    THEN [res |-> Err("EOF"), c |-> c, how |-> "none"]
    ELSE IF ~needs_owned(c)
    THEN [res |-> Ok(StreamBytes(c.blocks[id + 1])), c |-> c, how |-> "direct"]
    ELSE IF c.cache[id + 1] # None
    THEN [res |-> Ok(c.cache[id + 1][1]), c |-> c, how |-> "cache"]
    ELSE FillCache(c, id, BlockPayload(c, c.dir[id + 1], c.blocks[id + 1]))

\* Container::slice_elems: the bytes of elem_len elements from global element
\* offset global_elem_off, taken from block block_id.  got is the byte count of
\* the block block_bytes returned, None when it returned none.
slice_elems(c, block_id, global_elem_off, elem_len) ==
    IF block_id + 1 >= Len(c.block_start_elems)
    THEN [res |-> Err("Invalid block id"), c |-> c, got |-> None, how |-> "none"]
    ELSE IF global_elem_off < c.block_start_elems[block_id + 1]
    THEN [res |-> Err("Element offset before block start"), c |-> c, got |-> None,
          how |-> "none"]
    ELSE Bind(block_bytes(c, block_id), LAMBDA b :
         Bind((global_elem_off - c.block_start_elems[block_id + 1]) * c.elem_size,
              LAMBDA byte_off :
                 IF ~b.res.ok
                 THEN [res |-> b.res, c |-> b.c, got |-> None, how |-> b.how]
                 ELSE IF byte_off + elem_len * c.elem_size > Len(b.res.val)
                 THEN [res |-> Err("EOF"), c |-> b.c, got |-> Some(Len(b.res.val)),
                       how |-> b.how]
                 ELSE [res |-> Ok(SubSeq(b.res.val, byte_off + 1,
                                         byte_off + elem_len * c.elem_size)),
                       c |-> b.c, got |-> Some(Len(b.res.val)), how |-> b.how]))

\* bytes_to_f32_exact / bytes_to_f64_exact: the floats of a byte string.
decode_array_by_fmt_from_bytes(bytes, fmt) ==
    LET es == IF fmt = 1 THEN 4 ELSE 8
    IN IF fmt \notin {1, 2} THEN Err("Invalid float format")
       ELSE IF Len(bytes) % es # 0 THEN Err("Invalid float byte length")
       ELSE Ok([j \in 1..(Len(bytes) \div es) |->
                  SubSeq(bytes, (j - 1) * es + 1, j * es)])

----------------------------------------------------------------------------
(* decode: the items it builds.                                            *)

IsBinaryArrayTail(t) ==
    t \in { ACC_MZ_ARRAY, ACC_INTENSITY_ARRAY, ACC_TIME_ARRAY, ACC_32BIT_FLOAT,
            ACC_64BIT_FLOAT, ACC_ZLIB_COMPRESSION, ACC_NO_COMPRESSION }

strip_binary_array_cv_params(params) ==
    SelectIdx(params, LAMBDA q : ~IsBinaryArrayTail(parse_acc_tail(q.accession)))

is_isolation_window_tail(t) ==
    t \in { ACC_ISO_TARGET_MZ, ACC_ISO_LOWER_OFFSET, ACC_ISO_UPPER_OFFSET }

is_selected_ion_tail(t) == t \in { ACC_SELECTED_ION_MZ, ACC_CHARGE_STATE }

\* An activation test that also takes the scan start time.
is_activation_or_scan_tail(t) ==
    t \in { ACC_IN_SOURCE_CID, ACC_COLLISION_ENERGY, 1000016 }

is_activation_tail(t) == t \in { ACC_IN_SOURCE_CID, ACC_COLLISION_ENERGY }

\* infer_precursor_list_from_spectrum_cv: the params left on the spectrum (rest)
\* and the precursor list made of the others.
infer_precursor_list_from_spectrum_cv(params) ==
    LET tail(q) == parse_acc_tail(q.accession)
        iso == SelectIdx(params, LAMBDA q : is_isolation_window_tail(tail(q)))
        sel == SelectIdx(params, LAMBDA q : ~is_isolation_window_tail(tail(q))
                                            /\ is_selected_ion_tail(tail(q)))
        act == SelectIdx(params, LAMBDA q : ~is_isolation_window_tail(tail(q))
                                            /\ ~is_selected_ion_tail(tail(q))
                                            /\ is_activation_tail(tail(q)))
        rest == SelectIdx(params, LAMBDA q : ~is_isolation_window_tail(tail(q))
                                             /\ ~is_selected_ion_tail(tail(q))
                                             /\ ~is_activation_tail(tail(q)))
    IN [rest |-> rest,
        precursor_list |->
            IF iso = <<>> /\ sel = <<>> /\ act = <<>> THEN None
            ELSE Some([count |-> Some(1),
                       precursors |-> << [isolation_window |->
                                              IF iso = <<>> THEN None ELSE Some(iso),
                                          selected_ion_list |->
                                              IF sel = <<>> THEN None ELSE Some(sel),
                                          activation |->
                                              IF act = <<>> THEN None ELSE Some(act)] >>])]

\* An index reader that returns the first entry for every item.
read_first_index_entry(index, index_len, item_idx) ==
    IF (item_idx + 1) * INDEX_ENTRY_SIZE > index_len THEN Err("Index overflow")
    ELSE Ok(index[1])

\* read_index_entry_with_blocks on an index slice of index_len bytes.
read_index_entry_with_blocks(index, index_len, item_idx) ==
    IF (item_idx + 1) * INDEX_ENTRY_SIZE > index_len THEN Err("Index overflow")
    ELSE Ok(index[item_idx + 1])

BinaryDataArray(len, fmt, acc, floats) ==
    [array_length |-> Some(len), is_f32 |-> Some(fmt = 1), is_f64 |-> Some(fmt = 2),
     cv_params |-> << ms_cv_param(acc) >>,
     decoded_binary_f32 |-> IF fmt = 1 THEN floats ELSE <<>>,
     decoded_binary_f64 |-> IF fmt = 2 THEN floats ELSE <<>>]

\* format!("spectrum_{}", i) and format!("chromatogram_{}", j)
ItemId(word, i) == << word, "_" >> \o NumToString(i)

\* The Spectrum pushed for item i (0-based); user_params and the other fields
\* keep their defaults.
BuildSpectrum(i, item_params, e, x_fmt, y_fmt, mz, inten) ==
    LET inferred == infer_precursor_list_from_spectrum_cv(
                        strip_binary_array_cv_params(item_params))
    IN [id |-> ItemId("spectrum", i), index |-> Some(i),
        default_array_length |-> Some(e.x_len),
        cv_params |-> inferred.rest, user_params |-> <<>>,
        precursor_list |-> inferred.precursor_list,
        binary_data_array_list |->
            Some([count |-> Some(2),
                  binary_data_arrays |->
                      << BinaryDataArray(e.x_len, x_fmt, ACC_MZ_ARRAY, mz),
                         BinaryDataArray(e.y_len, y_fmt, ACC_INTENSITY_ARRAY, inten) >>])]

BuildChromatogram(j, item_params, e, x_fmt, y_fmt, t, inten) ==
    [id |-> ItemId("chromatogram", j), index |-> Some(j),
     default_array_length |-> Some(e.x_len),
     cv_params |-> strip_binary_array_cv_params(item_params), user_params |-> <<>>,
     precursor_list |-> None,
     binary_data_array_list |->
         Some([count |-> Some(2),
               binary_data_arrays |->
                   << BinaryDataArray(e.x_len, x_fmt, ACC_TIME_ARRAY, t),
                      BinaryDataArray(e.y_len, y_fmt, ACC_INTENSITY_ARRAY, inten) >>])]

----------------------------------------------------------------------------
(* decode: metadata regions.                                               *)

\* decompress_zlib_allow_pad0 / decompress_zstd_allow_pad0 on the first avail
\* bytes of a stored region: the stream inflates when it is whole and was
\* written by that codec.
decompress_allow_pad0(name, stored, avail) ==
    IF stored.kind = name /\ avail = stored.size THEN Ok(stored.data)
    ELSE Err(IF name = "zlib" THEN "Zlib decompression failed"
             ELSE "Zstd decompression failed")

\* decompress_meta_if_needed: the bytes decode goes on with, as the block they
\* hold and their length (head: bytes in front of the block's columns).
decompress_meta_if_needed(codec, is_compressed, stored, avail, head) ==
    IF ~is_compressed THEN Ok([avail |-> avail, data |-> stored.data])
    ELSE IF codec \notin {HDR_CODEC_ZLIB, HDR_CODEC_ZSTD} THEN Err("Unsupported meta codec")
    ELSE LET r == decompress_allow_pad0(CodecName(codec), stored, avail)
         IN IF r.ok THEN Ok([avail |-> head + MetaBytes(r.val), data |-> r.val]) ELSE r

\* Item q of the metadata iterator, or the default (no params) past its end.
ItemOr(items, q) == IF q <= Len(items) THEN items[q] ELSE <<>>

\* The last value among params whose accession tail is t, None when there is none.
RECURSIVE LastValue(_, _)
LastValue(params, t) ==
    IF params = <<>> THEN None
    ELSE IF parse_acc_tail(params[Len(params)].accession) = t
    THEN params[Len(params)].value
    ELSE LastValue(SubSeq(params, 1, Len(params) - 1), t)

\* decode.rs 1012-1138: the eight sections cut from the items of the decoded
\* block r, counts being the section counts.
GlobalStructs(counts, avail, r) ==
    LET used(j) == (IF counts[1] > 0 THEN 1 ELSE 0) + SumSeq(SubSeq(counts, 2, j - 1))
        section(j) == IF counts[j] > 0
                      THEN Some([q \in 1..counts[j] |-> ItemOr(r.items, used(j) + q)])
                      ELSE None
        defaults == [cv_list |-> None, file_content |-> <<>>,
                     referenceable_param_group_list |-> None, sample_list |-> None,
                     instrument_list |-> None, software_list |-> None,
                     data_processing_list |-> None, scan_settings_list |-> None]
    IN IF avail < 32
       THEN [kind |-> "ok", msg |-> "", val |-> defaults, looked |-> FALSE]
       ELSE IF r.kind # "ok"
       THEN [kind |-> r.kind, msg |-> r.msg, val |-> defaults, looked |-> r.looked]
       ELSE [kind |-> "ok", msg |-> "", looked |-> r.looked,
             val |-> [cv_list |->
                          IF counts[8] > 0
                          THEN Some([q \in 1..counts[8] |->
                                 LET ps == ItemOr(r.items, used(8) + q)
                                 IN [id |-> LastValue(ps, 9900001),
                                     full_name |-> LastValue(ps, 9900002),
                                     version |-> LastValue(ps, 9900003),
                                     uri |-> LastValue(ps, 9900004)]])
                          ELSE None,
                      file_content |-> IF counts[1] > 0 THEN ItemOr(r.items, 1) ELSE <<>>,
                      referenceable_param_group_list |-> section(2),
                      sample_list |-> section(3),
                      instrument_list |-> section(4),
                      software_list |-> section(5),
                      data_processing_list |-> section(6),
                      scan_settings_list |-> section(7)]]

\* decode_global_meta_structs on avail bytes: eight section counts, then one
\* metadata block with an item per section entry.
decode_global_meta_structs(counts, b, avail, m_cnt, n_cnt, s_cnt) ==
    IF avail < 32 THEN GlobalStructs(counts, avail, [kind |-> "ok"])
    ELSE Bind(decode_meta_block(b, avail - 32, SumSeq(counts), m_cnt, n_cnt, s_cnt),
              LAMBDA r : GlobalStructs(counts, avail, r))

----------------------------------------------------------------------------
(* decode as a state machine: one action per stage of the function.        *)

NoOutcome == [kind |-> "none", msg |-> "", val |-> <<>>]

NoBytes == [avail |-> 0, data |-> EmptyBlock]

\* The locals of decode before its first statement.
NoSlices == [spec_index |-> 0, chrom_index |-> 0, spec_meta |-> 0,
             chrom_meta |-> 0, global_meta |-> 0, elem_size |-> [k \in CK |-> 0]]

NoMeta == [spec_bytes |-> NoBytes, chrom_bytes |-> NoBytes,
           global_bytes |-> NoBytes, spec |-> <<>>, chrom |-> <<>>, global |-> <<>>]

\* How an encoded file is damaged: in one place, or cut short.
\* The filter is not exercised on its own.
FilterIdle ==
    /\ fbuf = <<>> /\ felem = 0 /\ fshuf = None /\ fout = None /\ fout2 = None

\* No conversion command is running.
CliIdle ==
    /\ cli_args = [mode |-> "none", overwrite |-> FALSE]
    /\ cli_env = "ok"
    /\ cli_fs = <<>>
    /\ cli_files = <<>>
    /\ cli_pc = "idle"
    /\ cli_i = 0
    /\ cli_counts = [ok |-> 0, failed |-> 0, skipped |-> 0]
    /\ cli_attempts = <<>>
    /\ cli_out = <<>>
    /\ cli_result = "none"

\* The later specifications are not running.
PadIdle ==
    /\ pad_call = [mode |-> "none", input |-> <<>>, valid |-> {}]
    /\ pad_end = 0
    /\ pad_round = 0
    /\ pad_pc = "idle"
    /\ pad_res = None

JsonIdle ==
    /\ json_in = [t |-> "null", s |-> <<>>, xs |-> <<>>]
    /\ json_val = [t |-> "null", s |-> <<>>, xs |-> <<>>]
    /\ json_pc = "idle"

OrdIdle ==
    /\ ord_c = ContainerEmpty
    /\ ord_r = ContainerEmpty

PrecIdle ==
    /\ prec_in = <<>>
    /\ prec_out = [rest |-> <<>>, precursor_list |-> None]
    /\ prec_pc = "idle"

AttrIdle ==
    /\ attr_rows = <<>>
    /\ attr_tail = 0
    /\ attr_res = None
    /\ attr_pc = "idle"

SlistIdle ==
    /\ slist_meta = <<>>
    /\ slist_out = None
    /\ slist_pc = "idle"

SubIdle ==
    /\ sub_children = <<>>
    /\ sub_root = 0
    /\ sub_out = {}
    /\ sub_stack = <<>>
    /\ sub_pc = "idle"

LaterIdle ==
    /\ PadIdle
    /\ JsonIdle
    /\ OrdIdle
    /\ PrecIdle
    /\ AttrIdle
    /\ SlistIdle
    /\ SubIdle

Damages == { [damage |-> m, cut |-> "none"] : m \in Mutations }
           \cup { [damage |-> "none", cut |-> c] : c \in Cuts }
           \cup { [damage |-> "bad_magic", cut |-> "below_header"] }

Init ==
    \E d \in Docs, p \in Profiles, g \in Damages :
      \E e \in { Encode(d, p) } :
        \E f \in { Mutate(e, g.damage) } :
           /\ doc = d
           /\ mutation = [damage |-> IF f = e THEN "none" ELSE g.damage, cut |-> g.cut]
           /\ file = Cut(f, g.cut)
           /\ pc = "start"
           /\ outcome = NoOutcome
           /\ reads = {}
           /\ slices = NoSlices
           /\ meta = NoMeta
           /\ cont = [k \in CK |-> ContainerEmpty]
           /\ item = 0
           /\ spectra = <<>>
           /\ chromatograms = <<>>
           /\ materialized = {}
           /\ block_log = <<>>
           /\ table_ready = FALSE
           /\ calls = 1
           /\ first_outcome = NoOutcome
           /\ FilterIdle
           /\ CliIdle
           /\ LaterIdle

\* No decode call is in progress.
DecodeIdle ==
    /\ doc = [spectra |-> <<>>, chroms |-> <<>>]
    /\ mutation = [damage |-> "none", cut |-> "none"]
    /\ file = ZeroFile(0)
    /\ pc = "idle"
    /\ outcome = NoOutcome
    /\ reads = {}
    /\ slices = NoSlices
    /\ meta = NoMeta
    /\ cont = [k \in CK |-> ContainerEmpty]
    /\ item = 0
    /\ spectra = <<>>
    /\ chromatograms = <<>>
    /\ materialized = {}
    /\ block_log = <<>>
    /\ table_ready = FALSE
    /\ calls = 0
    /\ first_outcome = NoOutcome

\* Every specification but one is idle.
IdleExceptPad ==
    /\ DecodeIdle
    /\ FilterIdle
    /\ CliIdle
    /\ JsonIdle
    /\ OrdIdle
    /\ PrecIdle
    /\ AttrIdle
    /\ SlistIdle
    /\ SubIdle

IdleExceptJson ==
    /\ DecodeIdle
    /\ FilterIdle
    /\ CliIdle
    /\ PadIdle
    /\ OrdIdle
    /\ PrecIdle
    /\ AttrIdle
    /\ SlistIdle
    /\ SubIdle

IdleExceptOrd ==
    /\ DecodeIdle
    /\ FilterIdle
    /\ CliIdle
    /\ PadIdle
    /\ JsonIdle
    /\ PrecIdle
    /\ AttrIdle
    /\ SlistIdle
    /\ SubIdle

IdleExceptPrec ==
    /\ DecodeIdle
    /\ FilterIdle
    /\ CliIdle
    /\ PadIdle
    /\ JsonIdle
    /\ OrdIdle
    /\ AttrIdle
    /\ SlistIdle
    /\ SubIdle

IdleExceptAttr ==
    /\ DecodeIdle
    /\ FilterIdle
    /\ CliIdle
    /\ PadIdle
    /\ JsonIdle
    /\ OrdIdle
    /\ PrecIdle
    /\ SlistIdle
    /\ SubIdle

IdleExceptSlist ==
    /\ DecodeIdle
    /\ FilterIdle
    /\ CliIdle
    /\ PadIdle
    /\ JsonIdle
    /\ OrdIdle
    /\ PrecIdle
    /\ AttrIdle
    /\ SubIdle

IdleExceptSub ==
    /\ DecodeIdle
    /\ FilterIdle
    /\ CliIdle
    /\ PadIdle
    /\ JsonIdle
    /\ OrdIdle
    /\ PrecIdle
    /\ AttrIdle
    /\ SlistIdle

\* return Err(msg)
Fail(msg) ==
    /\ outcome' = [kind |-> "err", msg |-> msg, val |-> <<>>]
    /\ pc' = "done"

\* A length test that is off by one.
header_too_short_by_two(len) == len < HEADER_SIZE - 1

\* decode.rs 432
header_too_short(len) == len < HEADER_SIZE

\* decode.rs 432-434: the length test.
CheckHeaderLen ==
    /\ pc = "start"
    /\ IF header_too_short(file.len)
       THEN Fail("Buffer too small for header")
       ELSE pc' = "magic" /\ outcome' = outcome
    /\ UNCHANGED <<otherVars, doc, mutation, file, reads, slices, meta, cont, item, spectra,
                   chromatograms, materialized, block_log, table_ready>>

\* decode.rs 437
bad_magic(f) == f.magic # "B000"

\* A decoder that does not look at the endianness byte.
endianness_not_tested(f) == FALSE

\* decode.rs 440
bad_endianness(f) == f.endian # 0

\* decode.rs 436-442: magic, then the endianness byte.
CheckMagic ==
    /\ pc = "magic"
    /\ IF bad_magic(file)
       THEN Fail("Invalid binary magic number") /\ reads' = reads \cup {"magic"}
       ELSE IF bad_endianness(file)
       THEN Fail("Unsupported endianness flag")
            /\ reads' = reads \cup {"magic", "endianness"}
       ELSE pc' = "header" /\ outcome' = outcome
            /\ reads' = reads \cup {"magic", "endianness"}
    /\ UNCHANGED <<otherVars, doc, mutation, file, slices, meta, cont, item, spectra,
                   chromatograms, materialized, block_log, table_ready>>

\* decode.rs 444-492: the header fields, then the four element sizes.
ReadHeader ==
    /\ pc = "header"
    /\ reads' = reads \cup {"header"}
    /\ IF \E k \in CK : ~fmt_elem_size(file.cont[k].fmt).ok
       THEN Fail("Invalid float format") /\ slices' = slices
       ELSE /\ pc' = "index" /\ outcome' = outcome
            /\ slices' = [slices EXCEPT !.elem_size =
                              [k \in CK |-> fmt_elem_size(file.cont[k].fmt).val]]
    /\ UNCHANGED <<otherVars, doc, mutation, file, meta, cont, item, spectra,
                   chromatograms, materialized, block_log, table_ready>>

\* decode.rs 494-503: the two index slices.
SliceIndex ==
    LET si == read_slice(file.len, file.off_spec_index,
                         file.spectrum_count * INDEX_ENTRY_SIZE)
        ci == read_slice(file.len, file.off_chrom_index,
                         file.chrom_count * INDEX_ENTRY_SIZE)
    IN /\ pc = "index"
       /\ IF ~si.ok
          THEN Fail(si.msg) /\ slices' = slices /\ reads' = reads
          ELSE IF ~ci.ok
          THEN Fail(ci.msg) /\ slices' = slices /\ reads' = reads \cup {"spec_index"}
          ELSE /\ pc' = "meta" /\ outcome' = outcome
               /\ slices' = [slices EXCEPT !.spec_index = si.val, !.chrom_index = ci.val]
               /\ reads' = reads \cup {"spec_index", "chrom_index"}
       /\ UNCHANGED <<otherVars, doc, mutation, file, meta, cont, item, spectra,
                      chromatograms, materialized, block_log, table_ready>>

\* decode.rs 512-518
first_container_off(f) ==
    LET m == min_nonzero_usize({ f.cont[k].off : k \in CK })
    IN IF m = None THEN f.len ELSE m[1]

\* decode.rs 505
meta_offsets_invalid(f) ==
    f.off_chrom_meta < f.off_spec_meta \/ f.off_global_meta < f.off_chrom_meta

\* decode.rs 505-528: the offset tests and the three metadata slices.
SliceMeta ==
    LET sm == read_slice(file.len, file.off_spec_meta,
                         file.off_chrom_meta - file.off_spec_meta)
        cm == read_slice(file.len, file.off_chrom_meta,
                         file.off_global_meta - file.off_chrom_meta)
        gm == read_slice(file.len, file.off_global_meta,
                         first_container_off(file) - file.off_global_meta)
    IN /\ pc = "meta"
       /\ IF meta_offsets_invalid(file)
          THEN Fail("Invalid meta offsets") /\ slices' = slices /\ reads' = reads
          ELSE IF ~sm.ok THEN Fail(sm.msg) /\ slices' = slices /\ reads' = reads
          ELSE IF ~cm.ok
          THEN Fail(cm.msg) /\ slices' = slices /\ reads' = reads \cup {"spec_meta"}
          ELSE IF first_container_off(file) < file.off_global_meta
          THEN Fail("Invalid global meta/container offsets") /\ slices' = slices
               /\ reads' = reads \cup {"spec_meta", "chrom_meta"}
          ELSE IF ~gm.ok
          THEN Fail(gm.msg) /\ slices' = slices
               /\ reads' = reads \cup {"spec_meta", "chrom_meta"}
          ELSE /\ pc' = "decompress" /\ outcome' = outcome
               /\ slices' = [slices EXCEPT !.spec_meta = sm.val, !.chrom_meta = cm.val,
                                            !.global_meta = gm.val]
               /\ reads' = reads \cup {"spec_meta", "chrom_meta", "global_meta"}
       /\ UNCHANGED <<otherVars, doc, mutation, file, meta, cont, item, spectra,
                      chromatograms, materialized, block_log, table_ready>>

\* decode.rs 530-544: the three metadata regions, inflated where flagged.
DecompressMeta ==
    LET sm == decompress_meta_if_needed(file.codec, file.spec_meta_comp,
                                        file.spec_meta, slices.spec_meta, 0)
        cm == decompress_meta_if_needed(file.codec, file.chrom_meta_comp,
                                        file.chrom_meta, slices.chrom_meta, 0)
        gm == decompress_meta_if_needed(file.codec, file.global_meta_comp,
                                        file.global_meta, slices.global_meta, 32)
    IN /\ pc = "decompress"
       /\ IF ~sm.ok THEN Fail(sm.msg) /\ meta' = meta
          ELSE IF ~cm.ok THEN Fail(cm.msg) /\ meta' = meta
          ELSE IF ~gm.ok THEN Fail(gm.msg) /\ meta' = meta
          ELSE /\ pc' = "containers" /\ outcome' = outcome
               /\ meta' = [meta EXCEPT !.spec_bytes = sm.val, !.chrom_bytes = cm.val,
                                        !.global_bytes = gm.val]
       /\ UNCHANGED <<otherVars, doc, mutation, file, reads, slices, cont, item, spectra,
                      chromatograms, materialized, block_log, table_ready>>

\* The order decode builds the containers in.
ContainerOrder == << "sx", "sy", "cx", "cy" >>

\* decode.rs 546-585: the four containers.
NewContainers ==
    LET new(k) == ContainerNew(file, k, file.codec, file.compression_level,
                               slices.elem_size[k], file.array_filter)
        bad == { q \in 1..4 : ~new(ContainerOrder[q]).ok }
        first == CHOOSE q \in bad : \A r \in bad : q <= r
    IN /\ pc = "containers"
       /\ IF bad # {}
          THEN /\ Fail(new(ContainerOrder[first]).msg) /\ cont' = cont
               /\ reads' = reads \cup { ContainerOrder[q] : q \in 1..(first - 1) }
          ELSE /\ pc' = "meta_blocks" /\ outcome' = outcome
               /\ cont' = [k \in CK |-> new(k).val]
               /\ reads' = reads \cup { k \in CK : file.cont[k].size # 0
                                                    /\ file.cont[k].block_count # 0 }
       /\ UNCHANGED <<otherVars, doc, mutation, file, slices, meta, item, spectra,
                      chromatograms, materialized, block_log, table_ready>>

\* Where decode goes once the metadata is decoded, or a loop has ended.
LoopPc(done_spectra, spec, chrom) ==
    IF ~done_spectra /\ Len(spec) > 0 THEN "spectra"
    ELSE IF Len(chrom) > 0 THEN "chromatograms"
    ELSE "finish"

\* decode.rs 587-616: the three metadata blocks in turn, each result passed
\* through `?`.  A panic inside decode_meta_block unwinds out of decode.
MetaBlocks ==
    Bind(decode_meta_block(meta.spec_bytes.data, meta.spec_bytes.avail,
                           file.spectrum_count, file.spec_counts.meta,
                           file.spec_counts.num, file.spec_counts.str), LAMBDA sm :
        IF sm.kind # "ok" THEN [kind |-> sm.kind, msg |-> sm.msg, looked |-> sm.looked]
        ELSE
    Bind(decode_meta_block(meta.chrom_bytes.data, meta.chrom_bytes.avail,
                           file.chrom_count, file.chrom_counts.meta,
                           file.chrom_counts.num, file.chrom_counts.str), LAMBDA cm :
        IF cm.kind # "ok"
        THEN [kind |-> cm.kind, msg |-> cm.msg, looked |-> sm.looked \/ cm.looked]
        ELSE
    Bind(decode_global_meta_structs(file.global_meta.counts, meta.global_bytes.data,
                                    meta.global_bytes.avail, file.global_counts.meta,
                                    file.global_counts.num, file.global_counts.str),
         LAMBDA gm :
        IF gm.kind # "ok"
        THEN [kind |-> gm.kind, msg |-> gm.msg,
              looked |-> sm.looked \/ cm.looked \/ gm.looked]
        ELSE [kind |-> "ok", msg |-> "", spec |-> sm.items, chrom |-> cm.items,
              global |-> gm.val, looked |-> sm.looked \/ cm.looked \/ gm.looked])))

DecodeMetaBlocks ==
    /\ pc = "meta_blocks"
    /\ \E r \in { MetaBlocks } :
       /\ table_ready' = (table_ready \/ r.looked)
       /\ IF r.kind # "ok"
          THEN /\ outcome' = [kind |-> r.kind, msg |-> r.msg, val |-> <<>>]
               /\ pc' = "done" /\ meta' = meta
          ELSE /\ meta' = [meta EXCEPT !.spec = r.spec, !.chrom = r.chrom,
                                        !.global = r.global]
               /\ pc' = LoopPc(FALSE, r.spec, r.chrom) /\ outcome' = outcome
    /\ item' = 0
    /\ UNCHANGED <<otherVars, doc, mutation, file, reads, slices, cont,
                   spectra, chromatograms, materialized, block_log>>

\* What a slice_elems call on container k materialized: the block it got from
\* block_bytes, as container, block id, byte count, the directory's uncomp_bytes.
Materialization(k, block_id, r) ==
    IF r.got = None THEN {}
    ELSE { [k |-> k, id |-> block_id, got |-> r.got[1],
            uncomp_bytes |-> cont[k].dir[block_id + 1].uncomp_bytes] }

\* The block_bytes call behind a slice_elems call on container k, as a log
\* entry; nothing when slice_elems returned before the call.
BlockRead(k, block_id, r) ==
    IF r.how = "none" THEN <<>> ELSE << [k |-> k, id |-> block_id, how |-> r.how] >>

\* The end of one turn of an item loop: both slices are there, the floats are
\* decoded.
DecodeArrays(kx, ky, e, x, y, mat, log) ==
    Bind(decode_array_by_fmt_from_bytes(x.res.val, file.cont[kx].fmt), LAMBDA xf :
    Bind(decode_array_by_fmt_from_bytes(y.res.val, file.cont[ky].fmt), LAMBDA yf :
        IF ~xf.ok
        THEN [ok |-> FALSE, msg |-> xf.msg, cont |-> cont, mat |-> mat, log |-> log]
        ELSE IF ~yf.ok
        THEN [ok |-> FALSE, msg |-> yf.msg, cont |-> cont, mat |-> mat, log |-> log]
        ELSE [ok |-> TRUE, msg |-> "", entry |-> e, x |-> xf.val, y |-> yf.val,
              cont |-> [cont EXCEPT ![kx] = x.c, ![ky] = y.c], mat |-> mat,
              log |-> log]))

\* The two slice_elems calls of a turn, for index entry e.
DecodeSlices(kx, ky, e) ==
    Bind(slice_elems(cont[kx], e.x_block, e.x_off, e.x_len), LAMBDA x :
        IF ~x.res.ok
        THEN [ok |-> FALSE, msg |-> x.res.msg, cont |-> cont,
              mat |-> Materialization(kx, e.x_block, x),
              log |-> BlockRead(kx, e.x_block, x)]
        ELSE Bind(slice_elems(cont[ky], e.y_block, e.y_off, e.y_len), LAMBDA y :
            IF ~y.res.ok
            THEN [ok |-> FALSE, msg |-> y.res.msg, cont |-> cont,
                  mat |-> Materialization(kx, e.x_block, x)
                          \cup Materialization(ky, e.y_block, y),
                  log |-> BlockRead(kx, e.x_block, x) \o BlockRead(ky, e.y_block, y)]
            ELSE DecodeArrays(kx, ky, e, x, y,
                              Materialization(kx, e.x_block, x)
                              \cup Materialization(ky, e.y_block, y),
                              BlockRead(kx, e.x_block, x)
                              \o BlockRead(ky, e.y_block, y))))

\* One turn of an item loop of decode: the index entry, the x and y slices, the
\* floats.  kx, ky name the two containers, index the index region.
DecodeItem(kx, ky, index, index_len) ==
    Bind(read_index_entry_with_blocks(index, index_len, item), LAMBDA e :
        IF ~e.ok
        THEN [ok |-> FALSE, msg |-> e.msg, cont |-> cont, mat |-> {}, log |-> <<>>]
        ELSE DecodeSlices(kx, ky, e.val))

\* decode.rs 618-662: one spectrum.
DecodeSpectrum ==
    /\ pc = "spectra"
    /\ \E r \in { DecodeItem("sx", "sy", file.spec_index, slices.spec_index) } :
       /\ materialized' = materialized \cup r.mat
       /\ block_log' = block_log \o r.log
       /\ table_ready' = (table_ready \/ r.ok)
       /\ IF ~r.ok
          THEN Fail(r.msg) /\ UNCHANGED <<cont, item, spectra>>
          ELSE /\ cont' = r.cont
               /\ spectra' = Append(spectra,
                      BuildSpectrum(item, meta.spec[item + 1], r.entry,
                                    file.cont["sx"].fmt, file.cont["sy"].fmt, r.x, r.y))
               /\ item' = IF item + 1 = Len(meta.spec) THEN 0 ELSE item + 1
               /\ pc' = LoopPc(item + 1 = Len(meta.spec), meta.spec, meta.chrom)
               /\ outcome' = outcome
       /\ UNCHANGED <<otherVars, doc, mutation, file, reads, slices, meta, chromatograms>>

\* decode.rs 664-705: one chromatogram.
DecodeChromatogram ==
    /\ pc = "chromatograms"
    /\ \E r \in { DecodeItem("cx", "cy", file.chrom_index, slices.chrom_index) } :
       /\ materialized' = materialized \cup r.mat
       /\ block_log' = block_log \o r.log
       /\ table_ready' = (table_ready \/ r.ok)
       /\ IF ~r.ok
          THEN Fail(r.msg) /\ UNCHANGED <<cont, item, chromatograms>>
          ELSE /\ cont' = r.cont
               /\ chromatograms' = Append(chromatograms,
                      BuildChromatogram(item, meta.chrom[item + 1], r.entry,
                                        file.cont["cx"].fmt, file.cont["cy"].fmt,
                                        r.x, r.y))
               /\ item' = item + 1
               /\ pc' = IF item + 1 = Len(meta.chrom) THEN "finish" ELSE "chromatograms"
               /\ outcome' = outcome
       /\ UNCHANGED <<otherVars, doc, mutation, file, reads, slices, meta, spectra>>

\* decode.rs 707-730: the MzML value returned.
Finish ==
    /\ pc = "finish"
    /\ pc' = "done"
    /\ outcome' = [kind |-> "ok", msg |-> "",
                   val |-> << [global |-> meta.global,
                               run |-> [id |-> << "run" >>,
                                        spectrum_list |->
                                            Some([count |-> Some(file.spectrum_count),
                                                  spectra |-> spectra]),
                                        chromatogram_list |->
                                            Some([count |-> Some(file.chrom_count),
                                                  chromatograms |-> chromatograms])]] >>]
    /\ UNCHANGED <<otherVars, doc, mutation, file, reads, slices, meta, cont, item, spectra,
                   chromatograms, materialized, block_log, table_ready>>

Next ==
    \/ CheckHeaderLen
    \/ CheckMagic
    \/ ReadHeader
    \/ SliceIndex
    \/ SliceMeta
    \/ DecompressMeta
    \/ NewContainers
    \/ DecodeMetaBlocks
    \/ DecodeSpectrum
    \/ DecodeChromatogram
    \/ Finish

Spec == Init /\ [][Next]_vars

----------------------------------------------------------------------------
(* The same bytes decoded a second time by the same process.               *)

\* A second call of decode on the file: fresh locals and containers; what the
\* process keeps between the calls is the CV table.
DecodeAgain ==
    /\ pc = "done" /\ calls = 1
    /\ calls' = 2
    /\ first_outcome' = outcome
    /\ pc' = "start"
    /\ outcome' = NoOutcome
    /\ reads' = {}
    /\ slices' = NoSlices
    /\ meta' = NoMeta
    /\ cont' = [k \in CK |-> ContainerEmpty]
    /\ item' = 0
    /\ spectra' = <<>>
    /\ chromatograms' = <<>>
    /\ materialized' = {}
    /\ block_log' = <<>>
    /\ UNCHANGED <<filterVars, cliVars, laterVars, doc, mutation, file, table_ready>>

TwiceNext == Next \/ DecodeAgain

TwiceSpec == Init /\ [][TwiceNext]_vars

----------------------------------------------------------------------------
(* The byte-shuffle filter as a function of a buffer: shuffle, then each of *)
(* the two unshuffle routines.                                              *)

\* decode2.rs 281-289: byte_unshuffle_into(input, output, elem_size), output
\* being a zero-filled buffer of input's length.
byte_unshuffle_into(input, elem_size) ==
    LET count == Len(input) \div elem_size
    IN [q \in 1..Len(input) |->
          IF q <= count * elem_size
          THEN input[((q - 1) % elem_size) * count + ((q - 1) \div elem_size) + 1]
          ELSE 0]

FilterBuffers ==
    { [q \in 1..(n * es) |-> (base + step * q) % 256] :
          n \in 0..MaxElems, es \in {4, 8},
          base \in 0..MaxByteBase, step \in 0..MaxByteStep }

FilterInit ==
    /\ DecodeIdle
    /\ CliIdle
    /\ LaterIdle
    /\ felem \in {4, 8}
    /\ fbuf \in { b \in FilterBuffers : Len(b) % felem = 0 }
    /\ fshuf = None /\ fout = None /\ fout2 = None

FilterShuffle ==
    /\ fshuf = None
    /\ fshuf' = Some(Shuffle(fbuf, felem))
    /\ UNCHANGED <<decodeVars, cliVars, laterVars, fbuf, felem, fout, fout2>>

FilterUnshuffle ==
    /\ fshuf # None /\ fout = None
    /\ fout' = Some(unshuffle_into(fshuf[1], felem))
    /\ UNCHANGED <<decodeVars, cliVars, laterVars, fbuf, felem, fshuf, fout2>>

FilterByteUnshuffle ==
    /\ fshuf # None /\ fout2 = None
    /\ fout2' = Some(byte_unshuffle_into(fshuf[1], felem))
    /\ UNCHANGED <<decodeVars, cliVars, laterVars, fbuf, felem, fshuf, fout>>

FilterNext == FilterShuffle \/ FilterUnshuffle \/ FilterByteUnshuffle

FilterSpec == FilterInit /\ [][FilterNext]_vars

----------------------------------------------------------------------------
(* Properties of decode.                                                   *)

Intact == mutation.damage = "none" /\ mutation.cut = "none"

Returned == pc = "done"

\* What a document's param reads as after a faithful round trip.
ExpectedAccession(prefix, tail) ==
    IF prefix = "" THEN None ELSE Some(Accession(prefix, TRUE, prefix = "NCIT", tail))

ExpectedValue(v) == CASE v.k = "text" -> Some(v.s)
                      [] v.k = "num" -> Some(NumToString(v.n))
                      [] OTHER -> None

\* The (accession, value, unit_accession) tuples of a document's params and of
\* decoded CvParams.
DocTuples(params) ==
    [q \in 1..Len(params) |->
       [accession |-> ExpectedAccession(params[q].prefix, params[q].tail),
        value |-> ExpectedValue(params[q].val),
        unit_accession |-> ExpectedAccession(params[q].uprefix, params[q].utail)]]

CvTuples(params) ==
    [q \in 1..Len(params) |->
       [accession |-> params[q].accession, value |-> params[q].value,
        unit_accession |-> params[q].unit_accession]]

Count(s, x) == Cardinality({ q \in 1..Len(s) : s[q] = x })

SameMultiset(a, b) ==
    /\ Len(a) = Len(b)
    /\ \A q \in 1..Len(a) : Count(a, a[q]) = Count(b, a[q])

\* The floats of a decoded binary data array.
Floats(ba) == IF ba.is_f32 = Some(TRUE) THEN ba.decoded_binary_f32
              ELSE ba.decoded_binary_f64

\* A decoded item against item i of the document: e the original, xk / yk its
\* containers, xAcc the accession of its x array.
ItemEquivalent(got, e, i, xk, yk, xAcc) ==
    LET fmt == file.cont[xk].fmt
        bdas == got.binary_data_array_list[1].binary_data_arrays
    IN /\ SameMultiset(CvTuples(got.cv_params), DocTuples(e.cv))
       /\ SameMultiset(CvTuples(got.user_params), DocTuples(e.user))
       /\ got.precursor_list = None
       /\ Len(bdas) = 2
       /\ SameMultiset(CvTuples(bdas[1].cv_params), DocTuples(BdaParams(xAcc, fmt)))
       /\ SameMultiset(CvTuples(bdas[2].cv_params),
                       DocTuples(BdaParams(ACC_INTENSITY_ARRAY, fmt)))
       /\ Floats(bdas[1]) = [j \in 1..Len(DocArray(xk, i)) |->
                                FloatBytes(DocArray(xk, i)[j], ElemSize(fmt))]
       /\ Floats(bdas[2]) = [j \in 1..Len(DocArray(yk, i)) |->
                                FloatBytes(DocArray(yk, i)[j], ElemSize(fmt))]

\* C1: for every document D, decode(encode(D)) succeeds and the decoded document
\* is semantically equal to D: as many spectra and chromatograms, on each the
\* same multiset of (accession, value, unit accession) CV params, the same user
\* params, no element D lacks, the same params on its two arrays, and arrays
\* with the same numbers.
C1_RoundTripEquivalent ==
    (Intact /\ Returned) =>
        /\ outcome.kind = "ok"
        /\ Len(spectra) = Len(doc.spectra)
        /\ Len(chromatograms) = Len(doc.chroms)
        /\ \A i \in 1..Len(spectra) :
              ItemEquivalent(spectra[i], doc.spectra[i], i, "sx", "sy", ACC_MZ_ARRAY)
        /\ \A j \in 1..Len(chromatograms) :
              ItemEquivalent(chromatograms[j], doc.chroms[j], j, "cx", "cy",
                             ACC_TIME_ARRAY)

\* C2: after decode(encode(D)) every spectrum and chromatogram carries the id
\* and the index of the item of D at the same position.
C2_IdAndIndexSurvive ==
    (Intact /\ Returned /\ outcome.kind = "ok") =>
        /\ \A i \in 1..Len(spectra) :
              spectra[i].id = doc.spectra[i].id /\ spectra[i].index = Some(i - 1)
        /\ \A j \in 1..Len(chromatograms) :
              chromatograms[j].id = doc.chroms[j].id
              /\ chromatograms[j].index = Some(j - 1)

\* C3: whatever the input, decode ends by returning Ok(document) or
\* Err(message): it never aborts by a panic, and an error carries no document.
C3_OkOrErr ==
    /\ outcome.kind \in {"none", "ok", "err"}
    /\ Returned => outcome.kind \in {"ok", "err"}
    /\ outcome.kind = "err" => outcome.val = <<>>

\* C4: every input shorter than the 192-byte header is answered with an error,
\* whatever its bytes, and decode has read none of them by then: the length is
\* tested before the magic.
C4_ShortInputIsError ==
    (file.len < HEADER_SIZE /\ pc # "start") =>
        (Returned /\ outcome.kind = "err" /\ reads = {})

C4_Witness ==
    /\ file.len = HEADER_SIZE - 1 /\ file.magic = "B000"
    /\ Returned /\ outcome.msg = "Buffer too small for header"

\* C5: an input of at least 192 bytes whose first four bytes are not B000, or
\* whose byte 4 is not zero, is answered with an error, and decode has read
\* nothing but the magic and the endianness byte by then.
C5_BadMagicIsError ==
    (file.len >= HEADER_SIZE /\ (file.magic # "B000" \/ file.endian # 0)
     /\ pc \notin {"start", "magic"}) =>
        (Returned /\ outcome.kind = "err" /\ reads \subseteq {"magic", "endianness"})

C5_Witness ==
    /\ file.len >= HEADER_SIZE /\ file.magic = "B000" /\ file.endian # 0
    /\ Returned /\ outcome.msg = "Unsupported endianness flag"

\* C6: the 192-byte input with a valid magic and endianness byte and every
\* other header field zero decodes to a document with no spectra and no
\* chromatograms.
C6_ZeroHeaderDecodes ==
    (file = ZeroFile(0) /\ Returned) =>
        (outcome.kind = "ok" /\ spectra = <<>> /\ chromatograms = <<>>)

\* The header's region offsets in on-disk order: spectrum index, chromatogram
\* index, spectrum meta, chromatogram meta, global meta, first container.
RegionOffsets(f) ==
    << f.off_spec_index, f.off_chrom_index, f.off_spec_meta, f.off_chrom_meta,
       f.off_global_meta, first_container_off(f) >>

Monotonic(offs) == \A q \in 1..(Len(offs) - 1) : offs[q] <= offs[q + 1]

\* C7: decode answers with an error whenever the region offsets of the header
\* are not monotonic in their on-disk order.
C7_NonMonotonicIsError ==
    (~Monotonic(RegionOffsets(file)) /\ Returned) => outcome.kind = "err"

\* An index entry range (off, len, block) lies inside the logical range of an
\* existing block of container c.
InLogicalRange(c, off, len, block) ==
    /\ block < Len(c.dir)
    /\ c.block_start_elems[block + 1] <= off
    /\ off + len <= c.block_start_elems[block + 1]
                     + (c.dir[block + 1].uncomp_bytes \div c.elem_size)

\* C8: decode succeeds only if every index entry names an existing block and
\* its element range lies inside that block's logical range, for x and for y,
\* of spectra and of chromatograms.
C8_EntriesInsideBlocks ==
    (Returned /\ outcome.kind = "ok") =>
        /\ \A i \in 1..Len(file.spec_index) :
              LET e == file.spec_index[i]
              IN /\ InLogicalRange(cont["sx"], e.x_off, e.x_len, e.x_block)
                 /\ InLogicalRange(cont["sy"], e.y_off, e.y_len, e.y_block)
        /\ \A j \in 1..Len(file.chrom_index) :
              LET e == file.chrom_index[j]
              IN /\ InLogicalRange(cont["cx"], e.x_off, e.x_len, e.x_block)
                 /\ InLogicalRange(cont["cy"], e.y_off, e.y_len, e.y_block)

\* C9: decode succeeds only if every block it materialized has exactly the
\* byte count the directory gives as uncomp_bytes.
C9_BlockSizeChecked ==
    (Returned /\ outcome.kind = "ok") =>
        \A b \in materialized : b.got = b.uncomp_bytes

\* C10: a file whose codec nibble is neither 0 (zlib) nor 1 (zstd) is answered
\* with an error, never with a document.
C10_UnknownCodecIsError ==
    (file.codec \notin {HDR_CODEC_ZLIB, HDR_CODEC_ZSTD} /\ Returned) =>
        outcome.kind = "err"

\* Metadatum m of block b has a value index that is out of range for its kind,
\* or names a string that ends after strings_data.
Dangling(b, m, num_count, str_count) ==
    \/ b.value_kinds[m] = 0 /\ b.value_indices[m] >= num_count
    \/ /\ b.value_kinds[m] = 1
       /\ \/ b.value_indices[m] >= str_count
          \/ b.string_offsets[b.value_indices[m] + 1]
               + b.string_lengths[b.value_indices[m] + 1] > Len(b.strings_data)

HasDangling(r, counts) ==
    \E m \in 1..counts.meta : Dangling(r.data, m, counts.num, counts.str)

\* C11: a metadata block with a value index out of range for its kind, or with
\* a string that runs past strings_data, is rejected: a decode that has ended
\* on a file holding such a spectrum or chromatogram block has ended in an
\* error.
C11_DanglingValueIsError ==
    (pc = "done" /\ (HasDangling(file.spec_meta, file.spec_counts)
                     \/ HasDangling(file.chrom_meta, file.chrom_counts)))
        => outcome.kind = "err"

\* The item_indices table of region r is not a prefix-sum table: it decreases
\* somewhere, or its last entry is not meta_count.
BadItemIndices(r, item_count, meta_count) ==
    /\ Len(r.data.item_indices) = item_count + 1
    /\ \/ \E i \in 1..item_count : r.data.item_indices[i] > r.data.item_indices[i + 1]
       \/ r.data.item_indices[item_count + 1] # meta_count

\* C12: a metadata block whose item_indices table decreases or does not end at
\* meta_count is rejected, and no item with an empty or truncated parameter
\* list is returned for it: a decode that has ended on a file holding such a
\* spectrum or chromatogram block has not returned a document.
C12_BadItemIndicesIsError ==
    (pc = "done"
     /\ (BadItemIndices(file.spec_meta, file.spectrum_count, file.spec_counts.meta)
         \/ BadItemIndices(file.chrom_meta, file.chrom_count, file.chrom_counts.meta)))
        => outcome.kind # "ok"

\* C13: for element sizes 4 and 8 and a buffer B of N elements,
\* unshuffle_into(shuffle(B)) succeeds and gives B back, byte_unshuffle_into
\* gives B back, and so the two routines agree.
C13_UnshuffleInvertsShuffle ==
    /\ fout # None => fout[1] = Ok(fbuf)
    /\ fout2 # None => fout2[1] = fbuf

\* Both routines have run on a shuffled buffer of several elements that the
\* shuffle did permute.
C13_Witness ==
    /\ fout # None /\ fout2 # None
    /\ Len(fbuf) >= 2 * felem
    /\ fshuf[1] # fbuf

\* A block that was built is served from its cache entry at every later read.
BlockBuiltOnce ==
    \A i \in 1..Len(block_log) : \A j \in (i + 1)..Len(block_log) :
        (block_log[i].k = block_log[j].k /\ block_log[i].id = block_log[j].id
         /\ block_log[i].how = "fill")
            => block_log[j].how = "cache"

\* A step keeps every cache entry that is set.
CacheEntryKept ==
    \A k \in CK : \A b \in 1..Len(cont[k].cache) :
        cont[k].cache[b] # None
            => (Len(cont'[k].cache) >= b /\ cont'[k].cache[b] = cont[k].cache[b])

\* C14: within one decode call a block is decompressed and unshuffled at most
\* once, every read of it after that is served from its cache entry, and a
\* cache entry, once set, is never replaced.
C14_BlockCache == []BlockBuiltOnce /\ [][CacheEntryKept]_vars

\* A block was built and then read again.
C14_Witness ==
    \E i \in 1..Len(block_log) : \E j \in (i + 1)..Len(block_log) :
        /\ block_log[i].k = block_log[j].k /\ block_log[i].id = block_log[j].id
        /\ block_log[i].how = "fill" /\ block_log[j].how = "cache"

\* The binary data arrays of the returned document, each with the container it
\* was read from.
ReturnedArrays ==
    LET run == outcome.val[1].run
        sp == run.spectrum_list[1].spectra
        ch == run.chromatogram_list[1].chromatograms
        arrays(it) == it.binary_data_array_list[1].binary_data_arrays
    IN { [ba |-> arrays(sp[i])[1], k |-> "sx"] : i \in 1..Len(sp) }
       \cup { [ba |-> arrays(sp[i])[2], k |-> "sy"] : i \in 1..Len(sp) }
       \cup { [ba |-> arrays(ch[i])[1], k |-> "cx"] : i \in 1..Len(ch) }
       \cup { [ba |-> arrays(ch[i])[2], k |-> "cy"] : i \in 1..Len(ch) }

\* The positions of params that hold the MS accession with tail t.
WithAccession(params, t) ==
    { q \in 1..Len(params) :
          params[q].accession = Some(Accession("MS", TRUE, FALSE, t)) }

\* C15: in every returned document each binary data array carries exactly one
\* float-format accession, MS:1000521 for 4-byte elements and MS:1000523 for
\* 8-byte elements, and only the decoded vector of that format is populated.
C15_OneFloatFormatParam ==
    (pc = "done" /\ outcome.kind = "ok") =>
        \A a \in ReturnedArrays :
            LET is32 == slices.elem_size[a.k] = 4
            IN /\ Cardinality(WithAccession(a.ba.cv_params, ACC_32BIT_FLOAT))
                      = (IF is32 THEN 1 ELSE 0)
               /\ Cardinality(WithAccession(a.ba.cv_params, ACC_64BIT_FLOAT))
                      = (IF is32 THEN 0 ELSE 1)
               /\ (is32 => a.ba.decoded_binary_f64 = <<>>)
               /\ (~is32 => a.ba.decoded_binary_f32 = <<>>)

\* The spectra and chromatograms of the returned document.
ReturnedItems ==
    LET run == outcome.val[1].run
        sp == run.spectrum_list[1].spectra
        ch == run.chromatogram_list[1].chromatograms
    IN { sp[i] : i \in 1..Len(sp) } \cup { ch[i] : i \in 1..Len(ch) }

\* C16: in every document a successful decode returns, each spectrum and each
\* chromatogram has both its arrays, of equal length, and its
\* default_array_length is that length.
C16_ArraysOfEqualLength ==
    (pc = "done" /\ outcome.kind = "ok") =>
        \A it \in ReturnedItems :
            LET bdas == it.binary_data_array_list[1].binary_data_arrays
            IN /\ Len(bdas) = 2
               /\ Len(Floats(bdas[1])) = Len(Floats(bdas[2]))
               /\ it.default_array_length = Some(Len(Floats(bdas[1])))

\* An accession of the form PREFIX:TAIL with a controlled-vocabulary prefix.
IsCvAccession(acc) ==
    /\ acc # None
    /\ acc[1].prefix \in {"MS", "UO", "NCIT", "PEFF"}
    /\ acc[1].colon

\* C17: every entry of a cv_params list of a decoded document has an accession
\* PREFIX:TAIL with PREFIX in {MS, UO, NCIT, PEFF}; a metadatum with another
\* prefix code is not among the CV params.
C17_CvParamsHaveCvPrefix ==
    (pc = "done" /\ outcome.kind = "ok") =>
        \A it \in ReturnedItems : \A q \in 1..Len(it.cv_params) :
            IsCvAccession(it.cv_params[q].accession)

Modes == {"mzml_to_b64", "mzml_to_b32", "b64_to_mzml"}

\* The extensions collect_files_with_exts is asked for in each mode.
wanted_exts(mode) ==
    IF mode = "b64_to_mzml" THEN {"b64", "b32"} ELSE {"mzml"}

\* As out_name_for_bin_file_as_mzml, but knowing only the .b64 extension.
out_name_b64_only(mode, ext) ==
    IF mode = "b64_to_mzml"
    THEN IF ext # "b64" THEN None ELSE Some("mzML")
    ELSE IF ext # "mzml" THEN None
         ELSE IF mode = "mzml_to_b32" THEN Some("b32") ELSE Some("b64")

\* out_name_for_mzml_file / out_name_for_bin_file_as_mzml: the extension of the
\* output name (the stem is the input's), None for an input of another kind.
out_name(mode, ext) ==
    IF mode = "b64_to_mzml"
    THEN IF ext # "b64" /\ ext # "b32" THEN None ELSE Some("mzML")
    ELSE IF ext # "mzml" THEN None
         ELSE IF mode = "mzml_to_b32" THEN Some("b32") ELSE Some("b64")

\* What can be found at an output path before the command runs: nothing, a
\* zero-length regular file, a regular file with content, a directory.
OutStates == {"absent", "empty", "file", "dir"}

\* How the steps after the skip test go for one input file.
Fates == {"ok", "mkdir_fails", "read_fails", "convert_fails", "write_fails"}

\* The files the input root may hold.  A directory at the output path makes
\* the write fail; a file of another kind is never collected.
FileKinds ==
    { [ext |-> e, out |-> o, fate |-> t] :
        e \in {"mzml", "b64"},
        o \in {"absent", "file"},
        t \in Fates }
    \cup { [ext |-> e, out |-> "empty", fate |-> "ok"] : e \in {"mzml", "b64"} }
    \cup { [ext |-> e, out |-> "dir", fate |-> "write_fails"] : e \in {"mzml", "b64"} }
    \cup { [ext |-> e, out |-> "absent", fate |-> "ok"] : e \in {"b32", "txt"} }

FileLists == UNION { [1..n -> FileKinds] : n \in 0..MaxFiles }

\* The skip test of the loop: fs::metadata succeeds, the path is a regular
\* file and its length is not zero.
skip_existing(overwrite, out_state) ==
    ~overwrite /\ out_state = "file"

\* One turn of the loop for file f whose output path holds out_state: which
\* counter the turn ends on ("none" for the uncounted continue).
convert_one(mode, overwrite, f, out_state) ==
    IF ~IsSome(out_name(mode, f.ext)) THEN "none"
    ELSE IF skip_existing(overwrite, out_state) THEN "skipped"
    ELSE IF f.fate = "mkdir_fails" THEN "failed"
    ELSE IF f.fate = "read_fails" THEN "failed"
    ELSE IF f.fate = "convert_fails" THEN "failed"
    ELSE IF f.fate = "write_fails" THEN "failed"
    ELSE "ok"

\* collect_files_with_exts: the positions in fs of the files whose extension
\* is wanted.
RECURSIVE collect_files_with_exts(_, _, _)
collect_files_with_exts(fs, exts, i) ==
    IF i > Len(fs) THEN <<>>
    ELSE IF fs[i].ext \in exts
         THEN <<i>> \o collect_files_with_exts(fs, exts, i + 1)
         ELSE collect_files_with_exts(fs, exts, i + 1)

CliInit ==
    /\ DecodeIdle
    /\ FilterIdle
    /\ LaterIdle
    /\ cli_args \in [mode : Modes, overwrite : BOOLEAN]
    /\ cli_env \in {"ok", "mkdir_fails", "read_dir_fails"}
    /\ cli_fs \in FileLists
    /\ cli_files = <<>>
    /\ cli_pc = "setup"
    /\ cli_i = 0
    /\ cli_counts = [ok |-> 0, failed |-> 0, skipped |-> 0]
    /\ cli_attempts = [i \in DOMAIN cli_fs |-> 0]
    /\ cli_out = [i \in DOMAIN cli_fs |->
                    [state |-> cli_fs[i].out,
                     content |-> IF cli_fs[i].out \in {"empty", "file"}
                                 THEN "old" ELSE "none"]]
    /\ cli_result = "none"

\* convert up to the loop: the output root is created, the files are
\* collected, an empty collection is an error.
CliSetup ==
    /\ cli_pc = "setup"
    /\ \E files \in { collect_files_with_exts(cli_fs, wanted_exts(cli_args.mode), 1) } :
        IF cli_env # "ok" \/ Len(files) = 0
        THEN /\ cli_pc' = "done"
             /\ cli_result' = "err"
             /\ UNCHANGED <<cli_files, cli_i>>
        ELSE /\ cli_pc' = "loop"
             /\ cli_files' = files
             /\ cli_i' = 1
             /\ UNCHANGED cli_result
    /\ UNCHANGED <<decodeVars, filterVars, laterVars, cli_args, cli_env, cli_fs,
                   cli_counts, cli_attempts, cli_out>>

\* One turn of the for loop over the collected files.
CliFile ==
    /\ cli_pc = "loop"
    /\ cli_i <= Len(cli_files)
    /\ \E k \in { cli_files[cli_i] } :
       \E how \in { convert_one(cli_args.mode, cli_args.overwrite,
                                cli_fs[k], cli_out[k].state) } :
        /\ cli_attempts' = [cli_attempts EXCEPT ![k] = @ + 1]
        /\ cli_counts' = IF how = "none" THEN cli_counts
                         ELSE [cli_counts EXCEPT ![how] = @ + 1]
        /\ \/ /\ how = "ok"
              /\ cli_out' = [cli_out EXCEPT
                                ![k] = [state |-> "file", content |-> "new"]]
           \/ /\ how # "ok"
              /\ UNCHANGED cli_out
           \/ \* a write that fails after the file was opened leaves it truncated
              /\ how = "failed"
              /\ cli_fs[k].fate = "write_fails"
              /\ cli_out[k].state \in {"absent", "empty", "file"}
              /\ cli_out' = [cli_out EXCEPT
                                ![k] = [state |-> "empty", content |-> "none"]]
    /\ cli_i' = cli_i + 1
    /\ UNCHANGED <<decodeVars, filterVars, laterVars, cli_args, cli_env, cli_fs, cli_files,
                   cli_pc, cli_result>>

\* After the loop: an error exactly when a file failed.
CliFinish ==
    /\ cli_pc = "loop"
    /\ cli_i > Len(cli_files)
    /\ cli_pc' = "done"
    /\ cli_result' = IF cli_counts.failed # 0 THEN "err" ELSE "ok"
    /\ UNCHANGED <<decodeVars, filterVars, laterVars, cli_args, cli_env, cli_fs, cli_files,
                   cli_i, cli_counts, cli_attempts, cli_out>>

CliNext == CliSetup \/ CliFile \/ CliFinish

CliSpec == CliInit /\ [][CliNext]_vars

\* The collected files, as a set of positions in cli_fs.
Collected == { cli_files[j] : j \in DOMAIN cli_files }

\* The loop of a conversion over a non-empty set of files has ended.
BatchDone == cli_pc = "done" /\ Len(cli_files) > 0

C20_ExistingOutputSkipped ==
    BatchDone =>
        \A k \in Collected :
            IF cli_args.overwrite
            THEN cli_out[k].content = "new"
            ELSE cli_fs[k].out \in {"empty", "file"} =>
                    /\ cli_out[k] = [state |-> cli_fs[k].out, content |-> "old"]
                    /\ cli_counts.skipped
                        >= Cardinality({ j \in Collected :
                                            cli_fs[j].out \in {"empty", "file"} })


\* ---------------------------------------------------------------------------
\* Block starts
\* ---------------------------------------------------------------------------

\* The logical element offset at which block i (0-based) of a directory starts,
\* counted entry by entry.
RECURSIVE StartOfBlock(_, _, _)
StartOfBlock(dir, elem_size, i) ==
    IF i = 0 THEN 0
    ELSE StartOfBlock(dir, elem_size, i - 1) + (dir[i].uncomp_bytes \div elem_size)

\* The containers of the call exist.
ContainersBuilt ==
    /\ pc \in {"meta_blocks", "spectra", "chromatograms", "finish", "done"}
    /\ { k \in CK : file.cont[k].size # 0 /\ file.cont[k].block_count # 0 } \subseteq reads

\* The containers that were built from a region of the file.
BuiltFromRegion ==
    { k \in CK : file.cont[k].size # 0 /\ file.cont[k].block_count # 0 }

BlockStartsFromDirectory ==
    ContainersBuilt =>
        \A k \in BuiltFromRegion :
            /\ Len(cont[k].block_start_elems) = Len(file.cont[k].dir) + 1
            /\ \A i \in 0..Len(file.cont[k].dir) :
                cont[k].block_start_elems[i + 1]
                    = StartOfBlock(file.cont[k].dir, slices.elem_size[k], i)

BlockStartsKept ==
    (ContainersBuilt /\ pc' # "start") =>
        \A k \in CK : cont'[k].block_start_elems = cont[k].block_start_elems

StreamByte == {0, 1}

PadCalls ==
    { [mode |-> m, input |-> i, valid |-> v] :
        m \in {"meta", "block"},
        i \in UNION { [1..n -> StreamByte] : n \in 0..MaxStream },
        v \in { w \in SUBSET (0..MaxStream) : Cardinality(w) <= 2 } }

\* decompress_to_vec_zlib / zstd_decode_all on the first n bytes of the input.
codec_inflates(call, n) == n \in call.valid

\* A loop test that looks at the length only.
may_trim_any(input, end) == end # 0

\* The test at the head of a turn of the retry loop: there is a last byte and
\* it is zero.
may_trim(input, end) == end # 0 /\ input[end] = 0

PadFailure == Err("decompression failed")

PadInit ==
    /\ IdleExceptPad
    /\ pad_call \in { c \in PadCalls : c.valid \subseteq 0..Len(c.input) }
    /\ pad_end = Len(pad_call.input)
    /\ pad_round = 0
    /\ pad_pc = "first"
    /\ pad_res = None

\* The first attempt, on the whole input.  For an array block
\* (Container::block_bytes, decode.rs 186-193) it is the only one.
PadFirst ==
    /\ pad_pc = "first"
    /\ IF codec_inflates(pad_call, pad_end)
       THEN pad_res' = Ok(pad_end) /\ pad_pc' = "done"
       ELSE IF pad_call.mode = "block"
       THEN pad_res' = PadFailure /\ pad_pc' = "done"
       ELSE pad_res' = pad_res /\ pad_pc' = "loop"
    /\ UNCHANGED <<exceptPad, pad_call, pad_end, pad_round>>

\* One turn of the retry loop that removes a byte and tries again.
PadTrim ==
    /\ pad_pc = "loop"
    /\ pad_round < 7
    /\ may_trim(pad_call.input, pad_end)
    /\ pad_end' = pad_end - 1
    /\ pad_round' = pad_round + 1
    /\ IF codec_inflates(pad_call, pad_end - 1)
       THEN pad_res' = Ok(pad_end - 1) /\ pad_pc' = "done"
       ELSE UNCHANGED <<pad_res, pad_pc>>
    /\ UNCHANGED <<exceptPad, pad_call>>

\* The loop ends (seven turns taken, or the break) without a result.
PadGiveUp ==
    /\ pad_pc = "loop"
    /\ pad_round = 7 \/ ~may_trim(pad_call.input, pad_end)
    /\ pad_res' = PadFailure
    /\ pad_pc' = "done"
    /\ UNCHANGED <<exceptPad, pad_call, pad_end, pad_round>>

PadNext == PadFirst \/ PadTrim \/ PadGiveUp

PadSpec == PadInit /\ [][PadNext]_vars

\* The last k bytes of the input are zero.
ZeroTail(input, k) ==
    k <= Len(input) /\ \A q \in (Len(input) - k + 1)..Len(input) : input[q] = 0

\* C22: when the first decompression of a metadata stream fails, the retry
\* loop removes only trailing zero bytes, one per turn and at most seven,
\* and stops at the first non-zero last byte; the result is the first prefix
\* that inflates, an error when none does, so a valid stream followed by at
\* most seven zero bytes decodes; an array block gets one attempt only.
C22_TrailingZeroTolerance ==
    LET n == Len(pad_call.input) IN
    /\ pad_round <= 7
    /\ pad_end = n - pad_round
    /\ ZeroTail(pad_call.input, pad_round)
    /\ pad_call.mode = "block" => pad_round = 0
    /\ (pad_pc = "done" /\ pad_res.ok) =>
          /\ pad_res.val = pad_end
          /\ codec_inflates(pad_call, pad_end)
          /\ \A m \in (pad_end + 1)..n : ~codec_inflates(pad_call, m)
    /\ (pad_pc = "done" /\ ~pad_res.ok /\ pad_call.mode = "meta") =>
          \A k \in 0..7 : ZeroTail(pad_call.input, k) => ~codec_inflates(pad_call, n - k)
    /\ (pad_pc = "done" /\ pad_call.mode = "block") =>
          (pad_res.ok <=> codec_inflates(pad_call, n))

\* A stream followed by seven zero bytes was inflated on the seventh retry.
C22_Witness ==
    /\ pad_pc = "done"
    /\ pad_call.mode = "meta"
    /\ pad_res.ok
    /\ pad_round = 7


\* ---------------------------------------------------------------------------
\* print_json and prune_json (crates/cli/src/main.rs 306-312, 855-879).
\* A serde_json::Value is [t |-> kind, s |-> scalar content, xs |-> values inside].
\* s is the code points of a string, <<0>> / <<1>> for a boolean, the number in a
\* one-element sequence, and the (distinct) keys of an object; xs is the elements
\* of an array and the member values of an object, in the order of s.
\* ---------------------------------------------------------------------------

JsonNull == [t |-> "null", s |-> <<>>, xs |-> <<>>]
JsonString(s) == [t |-> "string", s |-> s, xs |-> <<>>]
JsonBool(b) == [t |-> "bool", s |-> << IF b THEN 1 ELSE 0 >>, xs |-> <<>>]
JsonNumber(n) == [t |-> "number", s |-> << n >>, xs |-> <<>>]
JsonArray(xs) == [t |-> "array", s |-> <<>>, xs |-> xs]
JsonObject(keys, xs) == [t |-> "object", s |-> keys, xs |-> xs]

JsonScalars ==
    { JsonNull, JsonString(<<>>), JsonString(<<97>>), JsonBool(FALSE), JsonNumber(0) }

\* The values of exactly n nodes, and the sequences of values of m nodes in all.
RECURSIVE JsonOfSize(_), JsonSeqOfSize(_)
JsonOfSize(n) ==
    IF n = 1 THEN JsonScalars \cup { JsonArray(<<>>), JsonObject(<<>>, <<>>) }
    ELSE { JsonArray(xs) : xs \in JsonSeqOfSize(n - 1) }
         \cup { JsonObject([i \in 1..Len(xs) |-> i], xs) : xs \in JsonSeqOfSize(n - 1) }

JsonSeqOfSize(m) ==
    IF m = 0 THEN { <<>> }
    ELSE UNION { { <<x>> \o rest : x \in JsonOfSize(k), rest \in JsonSeqOfSize(m - k) } :
                    k \in 1..m }

JsonValues == UNION { JsonOfSize(n) : n \in 1..MaxJsonNodes }

\* A verdict that lets empty strings through.
keep_scalar_unless_null(v) == v.t # "null"

\* prune_json on a scalar: Null is dropped, a string is kept unless empty, a
\* boolean or number is kept.
keep_scalar(v) ==
    CASE v.t = "null" -> FALSE
      [] v.t = "string" -> v.s # <<>>
      [] OTHER -> TRUE

\* prune_json: the value as it is left in place, and the returned verdict.
\* retain_elements is xs.retain_mut(prune_json); retain_members the loop over
\* the keys of an object.
RECURSIVE prune_json(_), retain_elements(_), retain_members(_)
prune_json(v) ==
    CASE v.t = "array" ->
            Bind(retain_elements(v.xs), LAMBDA xs :
                [keep |-> xs # <<>>, val |-> JsonArray(xs)])
      [] v.t = "object" ->
            Bind(retain_members(v), LAMBDA m :
                [keep |-> m.xs # <<>>, val |-> m])
      [] OTHER -> [keep |-> keep_scalar(v), val |-> v]

retain_elements(xs) ==
    IF xs = <<>> THEN <<>>
    ELSE Bind(prune_json(Head(xs)), LAMBDA p :
            (IF p.keep THEN << p.val >> ELSE <<>>) \o retain_elements(Tail(xs)))

retain_members(m) ==
    IF m.xs = <<>> THEN m
    ELSE Bind(prune_json(Head(m.xs)), LAMBDA p :
         Bind(retain_members(JsonObject(Tail(m.s), Tail(m.xs))), LAMBDA rest :
            IF p.keep
            THEN JsonObject(<< Head(m.s) >> \o rest.s, << p.val >> \o rest.xs)
            ELSE rest))

JsonInit ==
    /\ IdleExceptJson
    /\ json_in \in JsonValues
    /\ json_val = json_in
    /\ json_pc = "prune"

\* print_json: prune_json(&mut val), its verdict ignored, then the value is
\* printed.
PrintJson ==
    /\ json_pc = "prune"
    /\ json_val' = prune_json(json_val).val
    /\ json_pc' = "printed"
    /\ UNCHANGED <<exceptJson, json_in>>

JsonNext == PrintJson

JsonSpec == JsonInit /\ [][JsonNext]_vars

\* The values directly inside a container (none inside a scalar).
JsonChildren(v) == v.xs

JsonIsEmpty(v) ==
    \/ v.t = "null"
    \/ v.t = "string" /\ v.s = <<>>
    \/ v.t \in {"array", "object"} /\ v.xs = <<>>

\* No value below v is null or empty.
RECURSIVE NothingEmptyBelow(_)
NothingEmptyBelow(v) ==
    \A i \in 1..Len(JsonChildren(v)) :
        /\ ~JsonIsEmpty(JsonChildren(v)[i])
        /\ NothingEmptyBelow(JsonChildren(v)[i])

\* How many values of kind t the value v holds, itself included.
RECURSIVE JsonCount(_, _)
JsonCount(v, t) ==
    (IF v.t = t THEN 1 ELSE 0)
    + SumSeq([i \in 1..Len(JsonChildren(v)) |-> JsonCount(JsonChildren(v)[i], t)])

\* C23: the value print_json prints holds no null, no empty string, no empty
\* array and no empty object at any depth below the root, and every boolean
\* and number of the serialized value, false and 0 included, is still in it.
C23_PrunedJsonHasNoEmpties ==
    json_pc = "printed" =>
        /\ NothingEmptyBelow(json_val)
        /\ JsonCount(json_val, "bool") = JsonCount(json_in, "bool")
        /\ JsonCount(json_val, "number") = JsonCount(json_in, "number")

\* An array holding only a null was emptied by pruning and removed, while the
\* 0 next to it stayed.
C23_Witness ==
    /\ json_pc = "printed"
    /\ json_in = JsonArray(<< JsonArray(<< JsonNull >>), JsonNumber(0) >>)
    /\ json_val = JsonArray(<< JsonNumber(0) >>)


\* ---------------------------------------------------------------------------
\* Items of the returned lists
\* ---------------------------------------------------------------------------

\* The item returned at position i (1-based) carries index i - 1, the array
\* lengths of index entry i - 1, and the params of metadata item i - 1.
ItemInPlace(got, i, word, entry, params) ==
    /\ got.index = Some(i - 1)
    /\ got.id = ItemId(word, i - 1)
    /\ got.binary_data_array_list[1].binary_data_arrays[1].array_length
            = Some(entry.x_len)
    /\ got.binary_data_array_list[1].binary_data_arrays[2].array_length
            = Some(entry.y_len)
    /\ got.cv_params
            = IF word = "spectrum"
              THEN infer_precursor_list_from_spectrum_cv(
                       strip_binary_array_cv_params(params)).rest
              ELSE strip_binary_array_cv_params(params)

\* C24: on every successful decode the spectrum list holds exactly
\* header.spectrum_count spectra and the chromatogram list exactly
\* header.chrom_count chromatograms, and the item at position i has index i
\* and is built from index entry i and metadata item i.
C24_ItemsInPlace ==
    (pc = "done" /\ outcome.kind = "ok") =>
        LET run == outcome.val[1].run
            sp == run.spectrum_list[1].spectra
            ch == run.chromatogram_list[1].chromatograms
        IN /\ Len(sp) = file.spectrum_count
           /\ Len(ch) = file.chrom_count
           /\ \A i \in 1..Len(sp) :
                ItemInPlace(sp[i], i, "spectrum", file.spec_index[i], meta.spec[i])
           /\ \A j \in 1..Len(ch) :
                ItemInPlace(ch[j], j, "chromatogram", file.chrom_index[j], meta.chrom[j])

\* Two spectra with arrays of different lengths and a chromatogram were
\* returned.
C24_Witness ==
    /\ pc = "done" /\ outcome.kind = "ok"
    /\ file.spectrum_count = 2
    /\ file.chrom_count = 1
    /\ file.spec_index[1].x_len # file.spec_index[2].x_len
    /\ Len(outcome.val[1].run.spectrum_list[1].spectra) = 2


\* ---------------------------------------------------------------------------
\* The blocks of a container read in any order, by Container::block_bytes
\* (decode.rs 154-214) and by ContainerReader::ensure_block (decode2.rs
\* 222-271).
\* ---------------------------------------------------------------------------

\* decode2.rs 281-289, byte_unshuffle_into(input, output, elem_size): the
\* output buffer afterwards.  Only the first count * elem_size bytes are written.
byte_unshuffle_onto(input, output, elem_size) ==
    LET count == Len(input) \div elem_size
    IN [q \in 1..Len(output) |->
          IF q <= count * elem_size
          THEN input[((q - 1) % elem_size) * count + ((q - 1) \div elem_size) + 1]
          ELSE output[q]]

\* ContainerReader::ensure_block(block_id): the result and the reader afterwards.
ensure_block(r, id) ==
    IF id >= Len(r.cache) THEN [res |-> Err("block_id out of range"), c |-> r]
    ELSE IF r.cache[id + 1] # None THEN [res |-> Ok(<<>>), c |-> r]
    ELSE IF r.dir[id + 1].comp_off + r.dir[id + 1].comp_size > r.region_len
    THEN [res |-> Err("container: block range out of bounds"), c |-> r]
    ELSE Bind(IF r.compression_level = 0 THEN Ok(StreamBytes(r.blocks[id + 1]))
              ELSE Inflate("zstd", r.blocks[id + 1]),
              LAMBDA out :
        IF ~out.ok THEN [res |-> out, c |-> r]
        ELSE IF Len(out.val) # r.dir[id + 1].uncomp_bytes
        THEN [res |-> Err("container: bad block size"), c |-> r]
        ELSE IF r.array_filter = ARRAY_FILTER_BYTE_SHUFFLE /\ r.elem_size > 1
        THEN Bind(byte_unshuffle_onto(out.val, Resized(r.scratch, Len(out.val)),
                                      r.elem_size),
                  LAMBDA scratch :
                      [res |-> Ok(<<>>),
                       c |-> [r EXCEPT !.scratch = scratch,
                                       !.cache[id + 1] = Some(scratch)]])
        ELSE [res |-> Ok(<<>>), c |-> [r EXCEPT !.cache[id + 1] = Some(out.val)]])

\* The byte lengths a block may have: whole elements, or a cut-off last one.
OrdBlockLens == {4, 6, 8}

\* A container of 4-byte elements over blocks of the given byte lengths.
OrdContainer(lens, level, filter) ==
    LET kind == IF level = 0 THEN "raw" ELSE "zstd"
        blocks == [b \in 1..Len(lens) |->
                     Stored(kind, [q \in 1..lens[b] |-> 16 * b + q])]
        sizes == [b \in 1..Len(lens) |-> blocks[b].size]
        dir == [b \in 1..Len(lens) |->
                  [comp_off |-> PrefixSum(sizes, b - 1), comp_size |-> sizes[b],
                   uncomp_bytes |-> lens[b]]]
    IN [region_len |-> SumSeq(sizes), blocks |-> blocks, dir |-> dir,
        block_start_elems |-> block_starts(dir, 4),
        cache |-> [b \in 1..Len(lens) |-> None],
        codec |-> HDR_CODEC_ZSTD, compression_level |-> level,
        elem_size |-> 4, array_filter |-> filter, scratch |-> <<>>]

OrdInit ==
    /\ IdleExceptOrd
    /\ \E n \in 1..MaxOrdBlocks :
       \E lens \in [1..n -> OrdBlockLens], level \in {0, 12},
          filter \in {ARRAY_FILTER_NONE, ARRAY_FILTER_BYTE_SHUFFLE} :
            /\ ord_c = OrdContainer(lens, level, filter)
            /\ ord_r = ord_c

\* Container::block_bytes on some block.
OrdBlockBytes ==
    /\ ord_c.dir # <<>>
    /\ \E id \in 0..(Len(ord_c.dir) - 1) :
        ord_c' = block_bytes(ord_c, id).c
    /\ UNCHANGED <<exceptOrd, ord_r>>

\* ContainerReader::ensure_block on some block.
OrdEnsureBlock ==
    /\ ord_r.dir # <<>>
    /\ \E id \in 0..(Len(ord_r.dir) - 1) :
        ord_r' = ensure_block(ord_r, id).c
    /\ UNCHANGED <<exceptOrd, ord_c>>

OrdNext == OrdBlockBytes \/ OrdEnsureBlock

OrdSpec == OrdInit /\ [][OrdNext]_vars

\* The container as it was built: nothing cached, the scratch buffer empty.
Untouched(c) == [c EXCEPT !.cache = [b \in 1..Len(c.dir) |-> None], !.scratch = <<>>]

\* Every cached block of decode.rs's container holds the bytes that reading it
\* first, on the untouched container, caches.
BlockBytesOrderFree ==
    \A b \in 1..Len(ord_c.cache) :
        ord_c.cache[b] # None =>
            ord_c.cache[b] = block_bytes(Untouched(ord_c), b - 1).c.cache[b]

\* The same for decode2.rs's reader.
EnsureBlockOrderFree ==
    \A b \in 1..Len(ord_r.cache) :
        ord_r.cache[b] # None =>
            ord_r.cache[b] = ensure_block(Untouched(ord_r), b - 1).c.cache[b]

\* C25: the bytes cached for block b depend only on block b's directory entry
\* and payload: whatever the order in which the blocks of a container are
\* decoded, and despite the shared scratch buffer, every block's cached bytes
\* are the same, in decode.rs and in decode2.rs.
C25_CacheIndependentOfOrder ==
    BlockBytesOrderFree /\ EnsureBlockOrderFree


\* ---------------------------------------------------------------------------
\* Empty containers
\* ---------------------------------------------------------------------------

\* The header gives container k no bytes or no blocks.
EmptyInHeader(k) == file.cont[k].size = 0 \/ file.cont[k].block_count = 0

\* C26: when the header gives a container size 0 or block_count 0, every index
\* entry that refers to it makes decode fail, an entry with length 0, offset 0
\* and block id 0 included; a file with spectrum_count > 0 (chrom_count > 0)
\* decodes only if both spectrum (chromatogram) containers are non-empty.
C26_EmptyContainerFailsEntries ==
    (pc = "done" /\ outcome.kind = "ok") =>
        /\ file.spectrum_count > 0 => ~EmptyInHeader("sx") /\ ~EmptyInHeader("sy")
        /\ file.chrom_count > 0 => ~EmptyInHeader("cx") /\ ~EmptyInHeader("cy")

\* A file whose spectrum x container is empty and whose entries all have
\* length 0, offset 0 and block id 0 was refused at its first entry.
C26_Witness ==
    /\ pc = "done"
    /\ mutation.damage = "sx_empty_zero_entries"
    /\ outcome.kind = "err"
    /\ outcome.msg = "Invalid block id"
    /\ cont["sx"] = ContainerEmpty
    /\ spectra = <<>>


\* ---------------------------------------------------------------------------
\* infer_precursor_list_from_spectrum_cv (decode.rs 365-428) on any list of
\* params.
\* ---------------------------------------------------------------------------

\* The accessions a param may carry: the precursor terms, two other terms, an
\* NCIT accession whose tail is not a number, and none.
PrecAccessions ==
    { Some(Accession("MS", TRUE, FALSE, t)) :
        t \in { ACC_ISO_TARGET_MZ, ACC_ISO_UPPER_OFFSET, ACC_SELECTED_ION_MZ,
                ACC_CHARGE_STATE, ACC_COLLISION_ENERGY, 1000016, 1000511 } }
    \cup { Some(Accession("NCIT", TRUE, TRUE, ACC_ISO_TARGET_MZ)), None }

PrecParams ==
    { CvParam(IF a = None THEN None ELSE Some(a[1].prefix), a, <<>>, v, None, None, None) :
        a \in PrecAccessions, v \in { None, Some(<< "1" >>) } }

PrecInit ==
    /\ IdleExceptPrec
    /\ prec_in \in UNION { [1..n -> PrecParams] : n \in 0..MaxParams }
    /\ prec_out = [rest |-> <<>>, precursor_list |-> None]
    /\ prec_pc = "call"

\* decode.rs 645-648: the call on a spectrum's params.
PrecInfer ==
    /\ prec_pc = "call"
    /\ prec_out' = infer_precursor_list_from_spectrum_cv(prec_in)
    /\ prec_pc' = "returned"
    /\ UNCHANGED <<exceptPrec, prec_in>>

PrecNext == PrecInfer

PrecSpec == PrecInit /\ [][PrecNext]_vars

\* x can be obtained from s by leaving elements out.
RECURSIVE IsSubsequence(_, _)
IsSubsequence(x, s) ==
    IF x = <<>> THEN TRUE
    ELSE IF s = <<>> THEN FALSE
    ELSE IF Head(x) = Head(s) THEN IsSubsequence(Tail(x), Tail(s))
    ELSE IsSubsequence(x, Tail(s))

\* The params of an optional part of the precursor.
PartParams(part) == IF part = None THEN <<>> ELSE part[1]

\* The numeric tail of a param's accession as the mzML terms have it: the
\* number of an MS accession, 0 for anything else.
MsTail(p) ==
    IF p.accession # None /\ p.accession[1].prefix = "MS" THEN p.accession[1].num ELSE 0

\* C27: infer_precursor_list_from_spectrum_cv partitions the params: each
\* ends up in exactly one of the remaining spectrum params, the isolation
\* window, the selected ion or the activation, in its original relative order,
\* none lost or duplicated; it returns None exactly when no param was moved,
\* and otherwise one precursor list with count 1 and a single precursor.
C27_PrecursorParamsPartitioned ==
    prec_pc = "returned" =>
        LET pl == prec_out.precursor_list
            pr == IF pl = None
                  THEN [isolation_window |-> None, selected_ion_list |-> None,
                        activation |-> None]
                  ELSE pl[1].precursors[1]
            iso == PartParams(pr.isolation_window)
            sel == PartParams(pr.selected_ion_list)
            act == PartParams(pr.activation)
            rest == prec_out.rest
        IN /\ SameMultiset(rest \o iso \o sel \o act, prec_in)
           /\ \A x \in {rest, iso, sel, act} : IsSubsequence(x, prec_in)
           /\ \A q \in 1..Len(iso) :
                MsTail(iso[q]) \in {1000827, 1000828, 1000829}
           /\ \A q \in 1..Len(sel) : MsTail(sel[q]) \in {1000744, 1000041}
           /\ \A q \in 1..Len(act) : MsTail(act[q]) \in {1001880, 1000045}
           /\ \A q \in 1..Len(rest) :
                MsTail(rest[q]) \notin {1000827, 1000828, 1000829, 1000744, 1000041,
                                        1001880, 1000045}
           /\ (pl = None) <=> (rest = prec_in)
           /\ pl # None => pl[1].count = Some(1) /\ Len(pl[1].precursors) = 1

\* Three params went three ways: isolation window, activation, and the
\* spectrum itself.
C27_Witness ==
    /\ prec_pc = "returned"
    /\ Len(prec_in) = 3
    /\ Len(prec_out.rest) = 1
    /\ prec_out.precursor_list # None
    /\ prec_out.precursor_list[1].precursors[1].isolation_window # None
    /\ prec_out.precursor_list[1].precursors[1].activation # None
    /\ prec_out.precursor_list[1].precursors[1].selected_ion_list = None

----------------------------------------------------------------------------
(* get_attr_text (b64/utilities/common.rs), called on its own.  Strings    *)
(* are sequences of characters.                                            *)

MaxRows == 3        \* rows handed to get_attr_text / parse_spectrum_list

Str_B000 == << "B", "0", "0", "0" >>
Colon == ":"

\* str::split_once(':'): the text before and after the first colon.
split_prefix(acc) ==
    LET at == { i \in 1..Len(acc) : acc[i] = Colon }
    IN IF at = {} THEN None
       ELSE LET i == CHOOSE j \in at : \A k \in at : j <= k
            IN Some(<< SubSeq(acc, 1, i - 1), SubSeq(acc, i + 1, Len(acc)) >>)

\* str::rsplit_once(':'): the text before and after the last colon.
rsplit_once(acc) ==
    LET at == { i \in 1..Len(acc) : acc[i] = Colon }
    IN IF at = {} THEN None
       ELSE LET i == CHOOSE j \in at : \A k \in at : j >= k
            IN Some(<< SubSeq(acc, 1, i - 1), SubSeq(acc, i + 1, Len(acc)) >>)

IsDigit(b) == \E d \in 1..10 : Digits[d] = b
DigitValue(b) == (CHOOSE d \in 1..10 : Digits[d] = b) - 1

\* common.rs 199-210: the digits of the tail are accumulated into a u32, every
\* other byte is passed over; a checked_mul / checked_add that overflows
\* (v * 10 + d > 4294967295) returns 0.
RECURSIVE accumulate_digits(_, _, _)
accumulate_digits(tail, v, saw) ==
    IF tail = <<>> THEN (IF saw THEN v ELSE 0)
    ELSE LET b == Head(tail)
         IN IF IsDigit(b)
            THEN LET d == DigitValue(b)
                 IN IF v > 429496729 \/ (v = 429496729 /\ d > 5) THEN 0
                    ELSE accumulate_digits(Tail(tail), v * 10 + d, TRUE)
            ELSE accumulate_digits(Tail(tail), v, saw)

\* common.rs 193-213
parse_accession_tail_str(acc) ==
    LET r == rsplit_once(acc)
        tail == IF r = None THEN acc ELSE r[1][2]
    IN accumulate_digits(tail, 0, FALSE)

\* common.rs 143-150
value_to_opt_string(v) ==
    CASE v.k = "empty" -> None
      [] v.k = "text" -> Some(v.s)
      [] v.k = "num" -> Some(NumToString(v.n))

\* What one turn of the loop of get_attr_text does with row m: "return" with
\* a result (the ? operators and the final return), or "continue".
attr_row(m, tail) ==
    IF m.accession = None THEN [go |-> "return", res |-> None]
    ELSE LET acc == m.accession[1]
             sp == split_prefix(acc)
         IN IF sp = None THEN [go |-> "return", res |-> None]
            ELSE IF sp[1][1] # Str_B000 THEN [go |-> "continue", res |-> None]
            ELSE IF parse_accession_tail_str(acc) # tail
                 THEN [go |-> "continue", res |-> None]
            ELSE [go |-> "return", res |-> value_to_opt_string(m.value)]

\* common.rs 172-186
RECURSIVE get_attr_text(_, _)
get_attr_text(rows, tail) ==
    IF rows = <<>> THEN None
    ELSE LET t == attr_row(Head(rows), tail)
         IN IF t.go = "return" THEN t.res ELSE get_attr_text(Tail(rows), tail)

\* u32::from_str: decimal digits only, at least one, no overflow.
parse_u32(s) ==
    IF s = <<>> \/ \E i \in 1..Len(s) : ~IsDigit(s[i]) THEN None
    ELSE IF Len(s) > 9 THEN None
    ELSE Some(accumulate_digits(s, 0, FALSE))

\* common.rs 166-169
get_attr_u32(rows, tail) ==
    LET s == get_attr_text(rows, tail)
    IN IF s = None THEN None ELSE parse_u32(s[1])

\* A row as get_attr_text reads it.
AttrRow(accession, value) == [accession |-> accession, value |-> value]

\* Accessions of the rows: none, the attribute with tail 7, the attribute with
\* tail 8 behind a letter, an MS term, and a string without a colon.
AttrAccessions ==
    { None,
      Some(Str_B000 \o << Colon, "7" >>),
      Some(Str_B000 \o << Colon, "x", "8" >>),
      Some(<< "M", "S", Colon, "7" >>),
      Some(Str_B000 \o << "7" >>) }

AttrValues == { Empty, Text(<< "a" >>), Num(3) }

AttrRows == { AttrRow(a, v) : a \in AttrAccessions, v \in AttrValues }

AttrTails == { 7, 8 }

AttrInit ==
    /\ IdleExceptAttr
    /\ attr_rows \in UNION { [1..n -> AttrRows] : n \in 0..MaxRows }
    /\ attr_tail \in AttrTails
    /\ attr_res = None
    /\ attr_pc = "call"

AttrCall ==
    /\ attr_pc = "call"
    /\ attr_res' = Some(get_attr_text(attr_rows, attr_tail))
    /\ attr_pc' = "returned"
    /\ UNCHANGED <<exceptAttr, attr_rows, attr_tail>>

AttrNext == AttrCall

AttrSpec == AttrInit /\ [][AttrNext]_vars

\* Row m carries the attribute `tail`: its accession has prefix B000 and the
\* number after its last colon is `tail`.
CarriesAttr(m, tail) ==
    /\ m.accession # None
    /\ split_prefix(m.accession[1]) # None
    /\ split_prefix(m.accession[1])[1][1] = Str_B000
    /\ parse_accession_tail_str(m.accession[1]) = tail

\* C29: get_attr_text(rows, tail) returns the value of the first row that
\* carries the attribute, whatever rows precede it (rows with no accession or
\* with an accession that has no colon included), and None only when there is
\* no such row or that row's value is empty.
C29_FirstAttrRowWins ==
    attr_pc = "returned" =>
        LET at == { i \in 1..Len(attr_rows) : CarriesAttr(attr_rows[i], attr_tail) }
        IN attr_res[1] =
            IF at = {} THEN None
            ELSE value_to_opt_string(
                    attr_rows[CHOOSE i \in at : \A j \in at : i <= j].value)

----------------------------------------------------------------------------
(* parse_spectrum_list (b64/utilities/parse_spectrum_list.rs), called as   *)
(* decode2.rs 66-69 calls it.  A spectrum is kept as its item index and    *)
(* the index it falls back to; its own fields are not modelled.            *)

\* The tail of the count attribute; its number is not among the sources, and
\* any number other tails do not use behaves alike.
ACC_ATTR_COUNT == 9900006

AttrAccession(tail) == Str_B000 \o << Colon >> \o NumToString(tail)

Metadatum(item_index, owner_id, parent_index, tag_id, accession, value) ==
    [item_index |-> item_index, owner_id |-> owner_id, parent_index |-> parent_index,
     tag_id |-> tag_id, accession |-> accession, value |-> value]

\* common.rs 301-303: (parent_id << 8) | tag, one key per pair since a tag
\* fits in 8 bits; the pair itself is kept.
key_parent_tag(parent_id, tag) == << parent_id, tag >>

RECURSIVE OwnersWhere(_, _, _)
OwnersWhere(metadata, keys, k) ==
    IF metadata = <<>> THEN <<>>
    ELSE IF keys[1] = k
         THEN << metadata[1].owner_id >> \o OwnersWhere(Tail(metadata), Tail(keys), k)
         ELSE OwnersWhere(Tail(metadata), Tail(keys), k)

\* common.rs 311-333: ChildIndex::new, the owner ids pushed under each key in
\* the order of the rows.
ChildIndexNew(metadata) ==
    LET n == Len(metadata)
        tagKeys == [i \in 1..n |->
                      key_parent_tag(metadata[i].parent_index, metadata[i].tag_id)]
        parentKeys == [i \in 1..n |-> metadata[i].parent_index]
    IN [ids_by_parent_tag |->
            [k \in { tagKeys[i] : i \in 1..n } |-> OwnersWhere(metadata, tagKeys, k)],
        children_by_parent |->
            [k \in { parentKeys[i] : i \in 1..n } |-> OwnersWhere(metadata, parentKeys, k)]]

\* common.rs 335-341: ChildIndex::ids
child_ids(child_index, parent_id, tag) ==
    LET k == key_parent_tag(parent_id, tag)
    IN IF k \in DOMAIN child_index.ids_by_parent_tag
       THEN child_index.ids_by_parent_tag[k] ELSE <<>>

RowsWithTag(metadata, tag) == SelectSeq(metadata, LAMBDA m : m.tag_id = tag)

\* parse_spectrum_list.rs 65-70: the item index of the last row of each owner.
RECURSIVE owner_to_item(_)
owner_to_item(rows) ==
    IF rows = <<>> THEN << >>
    ELSE LET m == rows[Len(rows)]
             before == owner_to_item(SubSeq(rows, 1, Len(rows) - 1))
         IN [o \in DOMAIN before \cup { m.owner_id } |->
                IF o = m.owner_id THEN m.item_index ELSE before[o]]

RECURSIVE ItemsOf(_, _)
ItemsOf(direct, owner_item) ==
    IF direct = <<>> THEN <<>>
    ELSE IF Head(direct) \in DOMAIN owner_item
         THEN << owner_item[Head(direct)] >> \o ItemsOf(Tail(direct), owner_item)
         ELSE ItemsOf(Tail(direct), owner_item)

\* parse_spectrum_list.rs 52-54: the spectrumList rows are asked first, then
\* all rows.
count_attr(spectrum_list_rows, all_rows) ==
    LET own == get_attr_u32(spectrum_list_rows, ACC_ATTR_COUNT)
    IN IF own # None THEN own ELSE get_attr_u32(all_rows, ACC_ATTR_COUNT)

\* parse_spectrum_list.rs 27-144
parse_spectrum_list(metadata, child_index) ==
    LET spectrum_list_rows == RowsWithTag(metadata, "SpectrumList")
        all_rows == metadata
        count == count_attr(spectrum_list_rows, all_rows)
        spectrum_rows == RowsWithTag(metadata, "Spectrum")
        spectrum_owner_to_item == owner_to_item(spectrum_rows)
        spectrum_item_in_order ==
            Dedup([i \in 1..Len(spectrum_rows) |-> spectrum_rows[i].item_index])
        spectrum_item_indices ==
            IF spectrum_list_rows = <<>> THEN spectrum_item_in_order
            ELSE LET direct == child_ids(child_index, spectrum_list_rows[1].owner_id,
                                         "Spectrum")
                     out == Dedup(ItemsOf(direct, spectrum_owner_to_item))
                 IN IF direct = <<>> \/ out = <<>> THEN spectrum_item_in_order
                    ELSE out
        have == { metadata[i].item_index : i \in 1..Len(metadata) }
        kept == { i \in 1..Len(spectrum_item_indices) : spectrum_item_indices[i] \in have }
        parsed == [j \in 1..Cardinality(kept) |->
                      LET i == CHOOSE i \in kept :
                                 Cardinality({ h \in kept : h < i }) = j - 1
                      IN [item_index |-> spectrum_item_indices[i],
                          fallback_index |-> i - 1]]
    IN IF spectrum_rows = <<>> THEN None
       ELSE IF parsed = <<>> THEN None
       ELSE Some([count |-> IF count # None THEN count ELSE Some(Len(parsed)),
                  spectra |-> parsed])

\* The rows of a spectra block: a spectrumList (owner 1) whose attributes may
\* be a count, an id, or a row without accession; two spectra (owners 2 and 3,
\* items 0 and 1) under the list or under another parent; the count of a
\* binaryDataArrayList and of a scanList inside the first spectrum.
SlistRows ==
    { Metadatum(0, 1, 0, "SpectrumList", a, v) :
        a \in { Some(AttrAccession(ACC_ATTR_COUNT)), Some(AttrAccession(ACC_ATTR_ID)), None },
        v \in { Num(7), Text(<< "x" >>) } }
    \cup { Metadatum(o - 2, o, p, "Spectrum", Some(AttrAccession(ACC_ATTR_ID)), Text(<< "x" >>)) :
            o \in { 2, 3 }, p \in { 1, 5 } }
    \cup { Metadatum(0, 4, 2, "BinaryDataArrayList", Some(AttrAccession(ACC_ATTR_COUNT)), Num(2)),
           Metadatum(0, 6, 2, "ScanList", Some(AttrAccession(ACC_ATTR_COUNT)), Num(9)) }

SlistInit ==
    /\ IdleExceptSlist
    /\ slist_meta \in UNION { [1..n -> SlistRows] : n \in 0..MaxRows }
    /\ slist_out = None
    /\ slist_pc = "call"

\* decode2.rs 66-69
SlistParse ==
    /\ slist_pc = "call"
    /\ slist_out' = Some(parse_spectrum_list(slist_meta, ChildIndexNew(slist_meta)))
    /\ slist_pc' = "returned"
    /\ UNCHANGED <<exceptSlist, slist_meta>>

SlistNext == SlistParse

SlistSpec == SlistInit /\ [][SlistNext]_vars

\* The rows of the spectrumList element that carry a count attribute with a
\* number in it.
OwnCounts(metadata) ==
    { i \in 1..Len(metadata) :
        /\ metadata[i].tag_id = "SpectrumList"
        /\ CarriesAttr(metadata[i], ACC_ATTR_COUNT)
        /\ value_to_opt_string(metadata[i].value) # None
        /\ parse_u32(value_to_opt_string(metadata[i].value)[1]) # None }

\* C28: the count of the SpectrumList returned is the count attribute of the
\* spectrumList element when it has one, otherwise the number of spectra
\* returned; the count of another element never becomes the list's count.
C28_CountIsOwnOrLength ==
    (slist_pc = "returned" /\ slist_out[1] # None) =>
        LET list == slist_out[1][1]
            own == OwnCounts(slist_meta)
        IN list.count =
            IF own = {} THEN Some(Len(list.spectra))
            ELSE parse_u32(value_to_opt_string(
                    slist_meta[CHOOSE i \in own : \A j \in own : i <= j].value)[1])

----------------------------------------------------------------------------
(* collect_subtree_owner_ids (b64/utilities/common.rs 279-299) on the map  *)
(* ChildIndex::new builds from the rows of a block.                        *)

\* Owner and parent ids of the rows.
SubIds == { 0, 1, 2 }

\* Rows that say "owner is a child of parent"; an id may be its own parent.
SubRows == { Metadatum(0, o, p, "Spectrum", None, Empty) : o \in SubIds, p \in SubIds }

\* common.rs 343-348: ChildIndex::children
children_of(children_by_parent, id) ==
    IF id \in DOMAIN children_by_parent THEN children_by_parent[id] ELSE <<>>

\* common.rs 291-295: every child is pushed.
push_first_child(stack, children) ==
    IF children = <<>> THEN stack ELSE Append(stack, children[1])

push_children(stack, children) == stack \o children

SubInit ==
    /\ IdleExceptSub
    /\ \E metadata \in UNION { [1..n -> SubRows] : n \in 0..MaxRows } :
         sub_children = ChildIndexNew(metadata).children_by_parent
    /\ sub_root \in SubIds
    /\ sub_out = {}
    /\ sub_stack = << sub_root >>
    /\ sub_pc = "loop"

\* common.rs 286-289: the id popped is in out already.
SubSkip ==
    /\ sub_pc = "loop"
    /\ sub_stack # <<>>
    /\ sub_stack[Len(sub_stack)] \in sub_out
    /\ sub_stack' = SubSeq(sub_stack, 1, Len(sub_stack) - 1)
    /\ UNCHANGED <<exceptSub, sub_children, sub_root, sub_out, sub_pc>>

\* common.rs 286-295: the id popped is new; its children are pushed.
SubVisit ==
    /\ sub_pc = "loop"
    /\ sub_stack # <<>>
    /\ LET id == sub_stack[Len(sub_stack)]
       IN /\ id \notin sub_out
          /\ sub_out' = sub_out \cup { id }
          /\ sub_stack' = push_children(SubSeq(sub_stack, 1, Len(sub_stack) - 1),
                                        children_of(sub_children, id))
    /\ UNCHANGED <<exceptSub, sub_children, sub_root, sub_pc>>

\* common.rs 286, 298: the stack is empty, out is returned.
SubReturn ==
    /\ sub_pc = "loop"
    /\ sub_stack = <<>>
    /\ sub_pc' = "returned"
    /\ UNCHANGED <<exceptSub, sub_children, sub_root, sub_out, sub_stack>>

SubNext == SubSkip \/ SubVisit \/ SubReturn

\* The loop is sequential code: a turn that can be taken is taken.
SubSpec == SubInit /\ [][SubNext]_vars /\ WF_vars(SubNext)

\* The ids one parent-to-child edge away from a set of ids.
ChildrenOfSet(children_by_parent, S) ==
    UNION { { children_of(children_by_parent, id)[i] :
                i \in 1..Len(children_of(children_by_parent, id)) } : id \in S }

\* The ids reachable from S along parent-to-child edges, S included.
RECURSIVE ReachableFrom(_, _)
ReachableFrom(children_by_parent, S) ==
    LET N == S \cup ChildrenOfSet(children_by_parent, S)
    IN IF N = S THEN S ELSE ReachableFrom(children_by_parent, N)

\* C30: collect_subtree_owner_ids returns for every children_by_parent map,
\* maps with cycles and ids that are their own parent included, and what it
\* returns is exactly the set of ids reachable from root_id, the root included.
C30_TerminatesWithReachableSet ==
    /\ <>(sub_pc = "returned")
    /\ [](sub_pc = "returned" =>
            sub_out = ReachableFrom(sub_children, { sub_root }))

\* The call has returned after visiting two ids that are each other's parent,
\* one of them its own parent too.
C30_Witness ==
    /\ sub_pc = "returned"
    /\ \E a \in sub_out, b \in sub_out :
         /\ a # b
         /\ a \in ChildrenOfSet(sub_children, { b })
         /\ b \in ChildrenOfSet(sub_children, { a })
         /\ a \in ChildrenOfSet(sub_children, { a })

============================================================================
